---------------------------- MODULE Spec2Model ----------------------------
(***************************************************************************)
(* Release tooling of the orbit repository: the version gate               *)
(* (tools/evalver.py), the changelog validator (tools/autocl.py), the      *)
(* changelog generator (tools/clgen.py), the package downloader            *)
(* (download.py) and the license header updater (tools/license.py).        *)
(* Text is modelled character by character: a Python str is a sequence of  *)
(* one-character strings, and the str methods the scripts use are          *)
(* operators on such sequences.                                            *)
(***************************************************************************)
EXTENDS Integers, Sequences, FiniteSets, TLC

VARIABLES
    call,             \* unit harness: the function called and its arguments
    ret,              \* unit harness: what the call returned or raised
    pc,               \* position of the running script's main()
    argv,             \* sys.argv[1:]
    manifest,         \* lines of ./Cargo.toml
    tags,             \* output of `git tag --list`
    contents,         \* lines of ./CHANGELOG.md
    current_version,  \* main's local of that name (evalver and autocl)
    last_version,     \* evalver main's local
    version_header,   \* autocl main's local
    info,             \* autocl main's local
    stdout,           \* the lines printed so far
    outcome,          \* how the process ended
    commits,          \* clgen: output of `git log`, stripped
    mapping,          \* clgen: the entries recorded per category
    log,              \* clgen: what is written to ./CHANGELOG_MERGE.md
    urls,             \* download: the URLs given
    zips,             \* download: the supported URLs
    ORBIT_QUEUE,      \* download: the environment variable of that name
    dl_count,         \* download: the counter of that name
    runs,             \* the argument lists of the subprocesses run so far
    files,            \* license: the text of every source file
    source,           \* license: position of the for loop in source_files
    latest,           \* license: the counter of that name
    updating,         \* license: the counter of that name
    missing,          \* license: the counter of that name
    run               \* license: how many times the script was started

vars == <<call, ret, pc, argv, manifest, tags, contents, current_version,
          last_version, version_header, info, stdout, outcome,
          commits, mapping, log, urls, zips, ORBIT_QUEUE, dl_count, runs,
          files, source, latest, updating, missing, run>>

unitVars == <<call, ret>>
mainVars == <<pc, argv, manifest, tags, contents, current_version,
              last_version, version_header, info, stdout, outcome>>
clgenVars == <<commits, mapping, log>>
downloadVars == <<urls, zips, ORBIT_QUEUE, dl_count>>
licenseVars == <<files, source, latest, updating, missing, run>>
toolVars == <<clgenVars, downloadVars, runs, licenseVars>>

---------------------------------------------------------------------------
(* Python values.  Every value is a record of the same shape, so that any  *)
(* two of them can be compared.                                            *)

NoneV     == [tag |-> "None", val |-> <<>>]
Str(s)    == [tag |-> "str", val |-> s]
Bool(b)   == [tag |-> "bool", val |-> IF b THEN <<"True">> ELSE <<"False">>]
List(l)   == [tag |-> "list", val |-> l]
Raise(e)  == [tag |-> "raise", val |-> <<e>>]

True  == Bool(TRUE)
False == Bool(FALSE)

IsRaise(v) == v.tag = "raise"

---------------------------------------------------------------------------
(* str methods *)

Chars(s) == {s[i] : i \in 1..Len(s)}

Whitespace == {" ", "\t", "\n"}

Digits == {"0", "1", "2", "3", "4", "5", "6", "7", "8", "9"}

DigitVal == [c \in Digits |->
               CASE c = "0" -> 0 [] c = "1" -> 1 [] c = "2" -> 2 [] c = "3" -> 3
                 [] c = "4" -> 4 [] c = "5" -> 5 [] c = "6" -> 6 [] c = "7" -> 7
                 [] c = "8" -> 8 [] c = "9" -> 9]

\* str.lower(), on the letters the inputs use
LowerChar(c) ==
    CASE c = "V" -> "v" [] c = "U" -> "u" [] c = "N" -> "n" [] c = "R" -> "r"
      [] c = "E" -> "e" [] c = "L" -> "l" [] c = "A" -> "a" [] c = "S" -> "s"
      [] c = "D" -> "d" [] c = "C" -> "c" [] c = "F" -> "f" [] c = "I" -> "i"
      [] c = "O" -> "o" [] c = "P" -> "p" [] c = "X" -> "x" [] OTHER -> c

Lower(s) == [i \in 1..Len(s) |-> LowerChar(s[i])]

\* s.startswith(p)
StartsWith(s, p) == Len(s) >= Len(p) /\ SubSeq(s, 1, Len(p)) = p

\* s.count(c) for a single character c
Count(s, c) == Cardinality({i \in 1..Len(s) : s[i] = c})

\* s.find(sub) + 1: the first position where sub occurs, 0 when it does not
Find(s, sub) ==
    LET at == {i \in 1..(Len(s) - Len(sub) + 1) :
                   SubSeq(s, i, i + Len(sub) - 1) = sub}
    IN  IF at = {} THEN 0 ELSE CHOOSE i \in at : \A j \in at : i <= j

RECURSIVE LStrip(_)
LStrip(s) ==
    IF s # <<>> /\ Head(s) \in Whitespace THEN LStrip(Tail(s)) ELSE s

RECURSIVE RStrip(_)
RStrip(s) ==
    IF s # <<>> /\ s[Len(s)] \in Whitespace
    THEN RStrip(SubSeq(s, 1, Len(s) - 1)) ELSE s

\* s.strip()
Strip(s) == RStrip(LStrip(s))

\* s.strip(q) for a single character q
RECURSIVE LStripChar(_, _)
LStripChar(s, q) ==
    IF s # <<>> /\ Head(s) = q THEN LStripChar(Tail(s), q) ELSE s

RECURSIVE RStripChar(_, _)
RStripChar(s, q) ==
    IF s # <<>> /\ s[Len(s)] = q
    THEN RStripChar(SubSeq(s, 1, Len(s) - 1), q) ELSE s

StripChar(s, q) == RStripChar(LStripChar(s, q), q)

\* s.split(sep, maxsplit) for a single character sep
RECURSIVE Split(_, _, _)
Split(s, sep, maxsplit) ==
    LET i == Find(s, <<sep>>)
    IN  IF maxsplit = 0 \/ i = 0 THEN <<s>>
        ELSE <<SubSeq(s, 1, i - 1)>>
               \o Split(SubSeq(s, i + 1, Len(s)), sep, maxsplit - 1)

\* s.splitlines()
RECURSIVE SplitLines(_)
SplitLines(s) ==
    LET i == Find(s, <<"\n">>)
    IN  IF s = <<>> THEN <<>>
        ELSE IF i = 0 THEN <<s>>
        ELSE <<SubSeq(s, 1, i - 1)>> \o SplitLines(SubSeq(s, i + 1, Len(s)))

\* s.split(maxsplit=1)[0]: the first whitespace-delimited token; the list is
\* empty, and [0] raises IndexError, when s holds nothing but whitespace
RECURSIVE TakeToken(_)
TakeToken(s) ==
    IF s = <<>> \/ Head(s) \in Whitespace THEN <<>>
    ELSE <<Head(s)>> \o TakeToken(Tail(s))

FirstToken(s) ==
    IF LStrip(s) = <<>> THEN Raise("IndexError") ELSE Str(TakeToken(LStrip(s)))

\* int(s): surrounding whitespace is allowed, the rest must be digits
CanInt(s) == Strip(s) # <<>> /\ Chars(Strip(s)) \subseteq Digits

RECURSIVE IntDigits(_)
IntDigits(s) ==
    IF s = <<>> THEN 0
    ELSE 10 * IntDigits(SubSeq(s, 1, Len(s) - 1)) + DigitVal[s[Len(s)]]

IntOf(s) == IntDigits(Strip(s))

---------------------------------------------------------------------------
(* tools/evalver.py *)

\* the for loop with != for the > of line 25
RECURSIVE CompareFromAnyDifference(_, _, _)
CompareFromAnyDifference(lhs, rhs, i) ==
    IF i > 3 THEN False
    ELSE IF i > Len(rhs) \/ i > Len(lhs) THEN Raise("IndexError")
    ELSE IF rhs[i] # lhs[i]
         THEN IF CanInt(rhs[i]) /\ CanInt(lhs[i])
              THEN Bool(IntOf(rhs[i]) # IntOf(lhs[i]))
              ELSE Raise("ValueError")
    ELSE CompareFromAnyDifference(lhs, rhs, i + 1)

\* the for loop with True for the return after it (line 27)
RECURSIVE CompareFromEqualIsHigher(_, _, _)
CompareFromEqualIsHigher(lhs, rhs, i) ==
    IF i > 3 THEN True
    ELSE IF i > Len(rhs) \/ i > Len(lhs) THEN Raise("IndexError")
    ELSE IF rhs[i] # lhs[i]
         THEN IF CanInt(rhs[i]) /\ CanInt(lhs[i])
              THEN Bool(IntOf(rhs[i]) > IntOf(lhs[i]))
              ELSE Raise("ValueError")
    ELSE CompareFromEqualIsHigher(lhs, rhs, i + 1)

\* the body of the for loop of is_new_version_higher, from index i on
\* (i counts from 1)
RECURSIVE CompareFrom(_, _, _)
CompareFrom(lhs, rhs, i) ==
    IF i > 3 THEN False
    ELSE IF i > Len(rhs) \/ i > Len(lhs) THEN Raise("IndexError")
    ELSE IF rhs[i] # lhs[i]
         THEN IF CanInt(rhs[i]) /\ CanInt(lhs[i])
              THEN Bool(IntOf(rhs[i]) > IntOf(lhs[i]))
              ELSE Raise("ValueError")
    ELSE CompareFrom(lhs, rhs, i + 1)

is_new_version_higher(lhs, rhs) ==
    CompareFrom(Split(lhs, ".", 2), Split(rhs, ".", 2), 1)

VersionKey == <<"v", "e", "r", "s", "i", "o", "n">>

\* extract_crate_version without the strip of the key (line 34)
RECURSIVE extract_crate_version_untrimmed_key(_)
extract_crate_version_untrimmed_key(lines) ==
    IF lines = <<>> THEN NoneV
    ELSE LET property == Split(Head(lines), "=", 1)
             value == Strip(property[2])
         IN  IF Len(property) = 2 /\ property[1] = VersionKey
             THEN IF Len(value) = 0 THEN NoneV
                  ELSE Str(StripChar(value, value[1]))
             ELSE extract_crate_version_untrimmed_key(Tail(lines))

\* extract_crate_version with '' for the empty value (line 37)
RECURSIVE extract_crate_version_empty_value(_)
extract_crate_version_empty_value(lines) ==
    IF lines = <<>> THEN NoneV
    ELSE LET property == Split(Head(lines), "=", 1)
             value == Strip(property[2])
         IN  IF Len(property) = 2 /\ Strip(property[1]) = VersionKey
             THEN IF Len(value) = 0 THEN Str(<<>>)
                  ELSE Str(StripChar(value, value[1]))
             ELSE extract_crate_version_empty_value(Tail(lines))

\* lines 32-41
RECURSIVE extract_crate_version(_)
extract_crate_version(lines) ==
    IF lines = <<>> THEN NoneV
    ELSE LET property == Split(Head(lines), "=", 1)
             value    == Strip(property[2])
         IN  IF Len(property) = 2 /\ Strip(property[1]) = VersionKey
             THEN IF Len(value) = 0 THEN NoneV
                  ELSE Str(StripChar(value, value[1]))
             ELSE extract_crate_version(Tail(lines))

\* line 48
characters == Digits \cup {"."}

\* DropV with a while for the if of line 53: every leading 'v' goes
RECURSIVE DropEveryV(_)
DropEveryV(tag) ==
    IF StartsWith(Lower(tag), <<"v">>) THEN DropEveryV(Tail(tag)) ELSE tag

\* lines 52-54: remove leading 'v'
DropV(tag) == IF StartsWith(Lower(tag), <<"v">>) THEN Tail(tag) ELSE tag

\* ValidTag without the count of the dots (line 56)
ValidTagAnyDots(tag) == Chars(tag) \subseteq characters

\* lines 56-61: the tag, its leading 'v' removed, is handed to the comparison
ValidTag(tag) == Count(tag, ".") = 2 /\ Chars(tag) \subseteq characters

ZeroVer == <<"0", ".", "0", ".", "0">>

\* lines 51-64: the for loop over the remaining lines; the result is the
\* value of highest_ver after the loop, or the exception that ended it
RECURSIVE HighestFrom(_, _)
HighestFrom(lines, highest_ver) ==
    IF lines = <<>> THEN Str(highest_ver)
    ELSE LET tag == DropV(Head(lines))
         IN  IF ~ValidTag(tag) THEN HighestFrom(Tail(lines), highest_ver)
             ELSE LET higher == is_new_version_higher(highest_ver, tag)
                  IN  IF IsRaise(higher) THEN higher
                      ELSE IF higher = True THEN HighestFrom(Tail(lines), tag)
                      ELSE HighestFrom(Tail(lines), highest_ver)

extract_latest_released_version(text) ==
    LET highest_ver == HighestFrom(SplitLines(Strip(text)), ZeroVer)
    IN  IF IsRaise(highest_ver) THEN highest_ver
        ELSE IF highest_ver = Str(ZeroVer) THEN NoneV
        ELSE highest_ver

---------------------------------------------------------------------------
(* Inputs *)

\* the longest version string the comparison is called on
MaxVerLen == 6

\* the most lines a tag listing holds
MaxTags == 2

VerDigits == {"0", "1"}

StringsUpTo(alphabet, n) == UNION {[1..k -> alphabet] : k \in 0..n}

\* three non-empty digit-only components
WellFormed(s) ==
    /\ Count(s, ".") = 2
    /\ \A c \in Chars(s) : c \in Digits \cup {"."}
    /\ \A i \in 1..3 : Split(s, ".", 2)[i] # <<>>

Versions == {s \in StringsUpTo(VerDigits \cup {"."}, MaxVerLen) : WellFormed(s)}

\* strings that are no version: '', '..', '1..0', '.1.0', '1.0', '1.0.0.0', '1.0.0.', '1.0.a'
MalformedVersions ==
    { <<>>,                                                \* ''
      <<".", ".">>,                                        \* '..'
      <<"1", ".", ".", "0">>,                              \* '1..0'
      <<".", "1", ".", "0">>,                              \* '.1.0'
      <<"1", ".", "0">>,                                   \* '1.0'
      <<"1", ".", "0", ".", "0", ".", "0">>,               \* '1.0.0.0'
      <<"1", ".", "0", ".", "0", ".">>,                    \* '1.0.0.'
      <<"1", ".", "0", ".", "a">> }                        \* '1.0.a'

\* third versions for chains of comparisons: zeros, ones, a leading zero in
\* each component, and two-digit components
ChainVersions ==
    { <<"0", ".", "0", ".", "0">>,   \* '0.0.0'
      <<"0", ".", "0", ".", "1">>,   \* '0.0.1'
      <<"0", ".", "1", ".", "0">>,   \* '0.1.0'
      <<"1", ".", "0", ".", "0">>,   \* '1.0.0'
      <<"1", ".", "1", ".", "1">>,   \* '1.1.1'
      <<"0", "1", ".", "0", ".", "0">>,   \* '01.0.0'
      <<"0", ".", "0", "1", ".", "0">>,   \* '0.01.0'
      <<"0", ".", "0", ".", "0", "1">>,   \* '0.0.01'
      <<"0", "0", ".", "1", ".", "0">>,   \* '00.1.0'
      <<"1", ".", "0", "0", ".", "1">>,   \* '1.00.1'
      <<"0", "1", ".", "1", ".", "0">>,   \* '01.1.0'
      <<"1", ".", "0", ".", "1", "0">>,   \* '1.0.10'
      <<"1", "0", ".", "0", ".", "0">> }   \* '10.0.0'

CmpStrings == Versions \cup MalformedVersions

\* the lines `git tag --list` may print: versions, with leading zeros and a
\* leading v or V, and lines that are no version ('..', '1.0', 'tag1', '',
\* ' 1.1.0', ...)
TagLines ==
    { <<"0", ".", "0", ".", "0">>,                         \* '0.0.0'
      <<"0", ".", "0", ".", "1">>,                         \* '0.0.1'
      <<"0", ".", "1", ".", "0">>,                         \* '0.1.0'
      <<"0", ".", "1", ".", "1">>,                         \* '0.1.1'
      <<"1", ".", "0", ".", "0">>,                         \* '1.0.0'
      <<"1", ".", "1", ".", "0">>,                         \* '1.1.0'
      <<"0", "1", ".", "0", ".", "0">>,                    \* '01.0.0'
      <<"0", "1", ".", "1", ".", "0">>,                    \* '01.1.0'
      <<"0", "0", ".", "0", ".", "1">>,                    \* '00.0.1'
      <<"1", ".", "0", ".", "0", "1">>,                    \* '1.0.01'
      <<"v", "0", ".", "0", ".", "0">>,                    \* 'v0.0.0'
      <<"v", "1", ".", "0", ".", "0">>,                    \* 'v1.0.0'
      <<"V", "0", ".", "1", ".", "0">>,                    \* 'V0.1.0'
      <<"V", "0", "1", ".", "1", ".", "0">>,               \* 'V01.1.0'
      <<"v", "v", "1", ".", "0", ".", "0">>,               \* 'vv1.0.0'
      <<"v">>,                                             \* 'v'
      <<".", ".">>,                                        \* '..'
      <<"1", ".", ".", "0">>,                              \* '1..0'
      <<".", "1", ".", "0">>,                              \* '.1.0'
      <<"1", ".", "0">>,                                   \* '1.0'
      <<"1", ".", "0", ".", "0", ".">>,                    \* '1.0.0.'
      <<"1", ".", "0", ".", "0", ".", "0">>,               \* '1.0.0.0'
      <<"a", ".", "b", ".", "c">>,                         \* 'a.b.c'
      <<"t", "a", "g", "1">>,                              \* 'tag1'
      <<>>,                                                \* ''
      <<" ", "1", ".", "1", ".", "0">>,                    \* ' 1.1.0'
      <<"1", ".", "1", ".", "0", " ">>,                    \* '1.1.0 '
      <<"1", ".", "0", ".", "a">> }                        \* '1.0.a'

RECURSIVE JoinLines(_)
JoinLines(lines) ==
    IF lines = <<>> THEN <<>> ELSE Head(lines) \o <<"\n">> \o JoinLines(Tail(lines))

\* the listings: each line ends with a line break, as git prints them
TagListings == {JoinLines(l) : l \in StringsUpTo(TagLines, MaxTags)}

\* the contents of ./Cargo.toml, as readlines() returns them
\* no version key: ['[package]\n', 'name = "orbit"\n', 'tokio = { version = "1" }\n']
Manifest1 ==
    <<<<"[", "p", "a", "c", "k", "a", "g", "e", "]", "\n">>,
      <<"n", "a", "m", "e", " ", "=", " ", "\"", "o", "r", "b", "i", "t", "\"", "\n">>,
      <<"t", "o", "k", "i", "o", " ", "=", " ", "{", " ", "v", "e", "r", "s", "i", "o", "n", " ", "=", " ", "\"", "1", "\"", " ", "}", "\n">>>>
\* 1.0.0: ['[package]\n', 'version = "1.0.0"\n']
Manifest2 ==
    <<<<"[", "p", "a", "c", "k", "a", "g", "e", "]", "\n">>,
      <<"v", "e", "r", "s", "i", "o", "n", " ", "=", " ", "\"", "1", ".", "0", ".", "0", "\"", "\n">>>>
\* 0.0.0, single quotes, bunched: ["version='0.0.0'\n"]
Manifest3 ==
    <<<<"v", "e", "r", "s", "i", "o", "n", "=", "'", "0", ".", "0", ".", "0", "'", "\n">>>>
\* 0.1.0, then a second version key: ['version = "0.1.0"\n', 'version = "1.1.0"\n']
Manifest4 ==
    <<<<"v", "e", "r", "s", "i", "o", "n", " ", "=", " ", "\"", "0", ".", "1", ".", "0", "\"", "\n">>,
      <<"v", "e", "r", "s", "i", "o", "n", " ", "=", " ", "\"", "1", ".", "1", ".", "0", "\"", "\n">>>>
\* 01.1.0: a leading zero: ['version = "01.1.0"\n']
Manifest5 ==
    <<<<"v", "e", "r", "s", "i", "o", "n", " ", "=", " ", "\"", "0", "1", ".", "1", ".", "0", "\"", "\n">>>>
\* 00.0.1: a leading zero: ['version = "00.0.1"\n']
Manifest6 ==
    <<<<"v", "e", "r", "s", "i", "o", "n", " ", "=", " ", "\"", "0", "0", ".", "0", ".", "1", "\"", "\n">>>>
\* the empty string: ['name = "orbit"\n', 'version = ""\n']
Manifest7 ==
    <<<<"n", "a", "m", "e", " ", "=", " ", "\"", "o", "r", "b", "i", "t", "\"", "\n">>,
      <<"v", "e", "r", "s", "i", "o", "n", " ", "=", " ", "\"", "\"", "\n">>>>
\* no value at all: ['version =\n']
Manifest8 ==
    <<<<"v", "e", "r", "s", "i", "o", "n", " ", "=", "\n">>>>
\* 1.0: two components: ['version = "1.0"\n']
Manifest9 ==
    <<<<"v", "e", "r", "s", "i", "o", "n", " ", "=", " ", "\"", "1", ".", "0", "\"", "\n">>>>

Manifests == {Manifest1, Manifest2, Manifest3, Manifest4, Manifest5, Manifest6, Manifest7, Manifest8, Manifest9}

\* the most lines of a manifest handed to extract_crate_version alone
MaxManifestLines == 2

\* lines of a manifest: a section, other keys, an inline table that holds
\* 'version' right of its '=', a key that only starts with 'version', the key
\* without '=', and version lines with double quotes, single quotes, blanks
\* around key and value, a '=' in the value, no quotes, doubled quotes, an
\* empty quoted value and no value
ManifestLines ==
    { <<"[", "p", "a", "c", "k", "a", "g", "e", "]", "\n">>,   \* '[package]\n'
      <<"n", "a", "m", "e", " ", "=", " ", "\"", "o", "r", "b", "i", "t", "\"", "\n">>,   \* 'name = "orbit"\n'
      <<"t", "o", "k", "i", "o", " ", "=", " ", "{", " ", "v", "e", "r", "s", "i", "o", "n", " ", "=", " ", "\"", "1", "\"", " ", "}", "\n">>,   \* 'tokio = { version = "1" }\n'
      <<"v", "e", "r", "s", "i", "o", "n", "s", " ", "=", " ", "\"", "2", "\"", "\n">>,   \* 'versions = "2"\n'
      <<"v", "e", "r", "s", "i", "o", "n", "\n">>,   \* 'version\n'
      <<"v", "e", "r", "s", "i", "o", "n", " ", "=", " ", "\"", "1", ".", "0", ".", "0", "\"", "\n">>,   \* 'version = "1.0.0"\n'
      <<"v", "e", "r", "s", "i", "o", "n", "=", "'", "0", ".", "1", ".", "0", "'", "\n">>,   \* "version='0.1.0'\n"
      <<" ", "v", "e", "r", "s", "i", "o", "n", "\t", "=", " ", "\"", "0", ".", "1", ".", "1", "\"", " ", "\n">>,   \* ' version\t= "0.1.1" \n'
      <<"v", "e", "r", "s", "i", "o", "n", " ", "=", " ", "\"", "a", "=", "b", "\"", "\n">>,   \* 'version = "a=b"\n'
      <<"v", "e", "r", "s", "i", "o", "n", " ", "=", " ", "1", ".", "0", ".", "1", "\n">>,   \* 'version = 1.0.1\n'
      <<"v", "e", "r", "s", "i", "o", "n", " ", "=", " ", "\"", "\"", "1", ".", "0", "\"", "\"", "\n">>,   \* 'version = ""1.0""\n'
      <<"v", "e", "r", "s", "i", "o", "n", " ", "=", " ", "\"", "\"", "\n">>,   \* 'version = ""\n'
      <<"v", "e", "r", "s", "i", "o", "n", " ", "=", "\n">> }   \* 'version =\n'

ManifestTexts == StringsUpTo(ManifestLines, MaxManifestLines)

VersionFlag == <<"-", "-", "v", "e", "r", "s", "i", "o", "n">>

---------------------------------------------------------------------------
(* Inputs of the changelog validator *)

\* the most lines ./CHANGELOG.md holds
MaxDocLines == 3

\* the <version> argument
RequestedVersions ==
    { <<"0", ".", "1", ".", "0">>,                         \* '0.1.0'
      <<"0", ".", "1", ".", "1">> }                        \* '0.1.1'

\* the lines of a changelog, as readlines() returns them: a title, a blank
\* line, body text, a sub-heading, version headers, and a line that lacks the
\* blank of the marker
DocLines ==
    { <<"#", " ", "C", "h", "a", "n", "g", "e", "l", "o", "g", "\n">>, \* '# Changelog\n'
      <<"\n">>,                                            \* '\n'
      <<"-", " ", "f", "i", "x", " ", "1", "\n">>,         \* '- fix 1\n'
      <<"#", "#", "#", " ", "C", "h", "a", "n", "g", "e", "s", "\n">>, \* '### Changes\n'
      <<"#", "#", " ", "0", ".", "1", ".", "0", "\n">>,    \* '## 0.1.0\n'
      <<"#", "#", " ", "V", "0", ".", "1", ".", "0", " ", "-", " ", "r", "e", "a", "d", "y", "\n">>, \* '## V0.1.0 - ready\n'
      <<"#", "#", " ", "0", ".", "1", ".", "0", " ", "-", " ", "u", "n", "r", "e", "l", "e", "a", "s", "e", "d", "\n">>, \* '## 0.1.0 - unreleased\n'
      <<"#", "#", " ", "0", ".", "1", ".", "1", " ", "U", "N", "R", "E", "L", "E", "A", "S", "E", "D", "\n">>, \* '## 0.1.1 UNRELEASED\n'
      <<"#", "#", " ", "0", ".", "1", ".", "1", "\n">>,    \* '## 0.1.1\n'
      <<"#", "#", " ", "\n">>,                             \* '## \n'
      <<"#", "#", " ", "0", ".", "0", "1", ".", "0", "\n">>, \* '## 0.01.0\n'
      <<"#", "#", "0", ".", "1", ".", "0", "\n">> }        \* '##0.1.0\n'

Changelogs == StringsUpTo(DocLines, MaxDocLines)

\* the changelogs for the calls of get_version_header: also with a line that
\* holds the marker past its start
HeaderDocs ==
    StringsUpTo(DocLines \cup {<<"s", "e", "e", " ", "#", "#", " ", "0", ".", "1", ".", "0", "\n">>}, MaxDocLines)

\* sys.argv[1:]: no argument, one version, two arguments
AutoclArgvs ==
    {<<>>} \cup {<<v>> : v \in RequestedVersions}
           \cup {<<v, w>> : v, w \in RequestedVersions}

\* header lines for the calls of versions_match: the marker, blanks, an
\* optional v or V, a version field, a qualifier
Marker == <<"#", "#", " ">>

HeaderBlanks ==
    { <<>>,                                                \* ''
      <<" ">> }                                            \* ' '
HeaderPrefixes ==
    { <<>>,                                                \* ''
      <<"v">>,                                             \* 'v'
      <<"V">> }                                            \* 'V'
HeaderVersions ==
    { <<"0", ".", "1", ".", "0">>,                         \* '0.1.0'
      <<"0", ".", "1", ".", "1">>,                         \* '0.1.1'
      <<"0", ".", "0", "1", ".", "0">>,                    \* '0.01.0'
      <<>> }                                               \* ''
HeaderQualifiers ==
    { <<"\n">>,                                            \* '\n'
      <<" ", "-", " ", "u", "n", "r", "e", "l", "e", "a", "s", "e", "d", "\n">>, \* ' - unreleased\n'
      <<" ", "U", "N", "R", "E", "L", "E", "A", "S", "E", "D">>, \* ' UNRELEASED'
      <<" ", "-", " ", "r", "e", "a", "d", "y", "\n">> }   \* ' - ready\n'

Headers ==
    {Marker \o b \o p \o v \o q :
        b \in HeaderBlanks, p \in HeaderPrefixes,
        v \in HeaderVersions, q \in HeaderQualifiers}

\* further lines for the calls of is_finalized: the keyword in mixed case, in
\* parentheses, alone on the line, and texts that only come close to it
NearUnreleased ==
    { <<"#", "#", " ", "U", "n", "r", "e", "l", "e", "a", "s", "e", "d", "\n">>,   \* '## Unreleased\n'
      <<"#", "#", " ", "0", ".", "1", ".", "0", " ", "(", "U", "n", "R", "e", "l", "e", "a", "s", "e", "d", ")", "\n">>,   \* '## 0.1.0 (UnReleased)\n'
      <<"u", "n", "r", "e", "l", "e", "a", "s", "e", "d", "\n">>,   \* 'unreleased\n'
      <<"#", "#", " ", "0", ".", "1", ".", "0", " ", "-", " ", "r", "e", "l", "e", "a", "s", "e", "d", "\n">>,   \* '## 0.1.0 - released\n'
      <<"#", "#", " ", "0", ".", "1", ".", "0", " ", "-", " ", "u", "n", "r", "e", "l", "e", "a", "s", "e", "\n">>,   \* '## 0.1.0 - unrelease\n'
      <<"#", "#", " ", "0", ".", "1", ".", "0", " ", "u", "n", " ", "r", "e", "l", "e", "a", "s", "e", "d", "\n">> }   \* '## 0.1.0 un released\n'

FinalizedHeaders == Headers \cup NearUnreleased

Unreleased == <<"u", "n", "r", "e", "l", "e", "a", "s", "e", "d">>

---------------------------------------------------------------------------
(* Inputs of the changelog generator *)

\* the most commits `git log` lists
MaxCommits == 2

\* subjects of commits: one for each prefix of prefix_map, with and without an
\* issue reference and a closing keyword, a subject without a prefix, a
\* prefix in capitals, an issue reference with other text, and an empty line
CommitLines ==
    { <<"f", "e", "a", "t", ":", " ", "a", "d", "d", "s", " ", "a", "u", "t", "o", "-", "c", "h", "a", "n", "g", "e", "l", "o", "g", " ", "s", "c", "r", "i", "p", "t", " ", "(", "c", "l", "o", "s", "e", " ", "#", "1", ")">>,   \* 'feat: adds auto-changelog script (close #1)'
      <<"m", "o", "d", ":", " ", "a", "s", "k", "s", " ", "u", "s", "e", "r", " ", "f", "o", "r", " ", "p", "a", "t", "h", " ", "i", "n", " ", "i", "n", "i", "t", "i", "a", "l", " ", "s", "e", "t", "u", "p">>,   \* 'mod: asks user for path in initial setup'
      <<"d", "o", "c", "s", ":", " ", "a", "d", "d", "s", " ", "h", "e", "l", "p", " ", "t", "e", "x", "t", " ", "(", "#", "3", ")">>,   \* 'docs: adds help text (#3)'
      <<"f", "i", "x", ":", " ", "t", "r", "i", "m", "s", " ", "t", "a", "g", "s", " ", "(", "F", "i", "x", "e", "s", " ", "#", "2", ")">>,   \* 'fix: trims tags (Fixes #2)'
      <<"d", "e", "p", "r", "e", "c", ":", " ", "o", "l", "d", " ", "f", "l", "a", "g">>,   \* 'deprec: old flag'
      <<"r", "e", "m", "o", "v", "e", ":", " ", "o", "l", "d", " ", "f", "l", "a", "g", " ", "(", "r", "e", "s", "o", "l", "v", "e", "d", " ", "#", "4", ")">>,   \* 'remove: old flag (resolved #4)'
      <<"t", "e", "s", "t", ":", " ", "a", "d", "d", "s", " ", "u", "n", "i", "t", " ", "t", "e", "s", "t">>,   \* 'test: adds unit test'
      <<"p", "e", "r", "f", ":", " ", "s", "p", "e", "e", "d", "s", " ", "u", "p", " ", "p", "a", "r", "s", "e", "r">>,   \* 'perf: speeds up parser'
      <<"c", "i", ":", " ", "u", "p", "d", "a", "t", "e", "s", " ", "p", "i", "p", "e", "l", "i", "n", "e">>,   \* 'ci: updates pipeline'
      <<"b", "u", "m", "p", " ", "v", "e", "r", "s", "i", "o", "n">>,   \* 'bump version'
      <<"F", "I", "X", ":", " ", "t", "y", "p", "o">>,   \* 'FIX: typo'
      <<"d", "o", "c", "s", ":", " ", "l", "i", "n", "k", "s", " ", "g", "u", "i", "d", "e", " ", "(", "s", "e", "e", " ", "P", "R", " ", "#", "5", ")">>,   \* 'docs: links guide (see PR #5)'
      <<>> }   \* ''

\* what `git log --pretty=format:"%s"` prints: the subjects, one per line
RECURSIVE JoinWith(_, _)
JoinWith(lines, sep) ==
    IF lines = <<>> THEN <<>>
    ELSE IF Len(lines) = 1 THEN Head(lines)
    ELSE Head(lines) \o sep \o JoinWith(Tail(lines), sep)

CommitLogs == {JoinWith(l, <<"\n">>) : l \in StringsUpTo(CommitLines, MaxCommits)}

\* what `git tag --list` prints in the runs of clgen: no tag, a version, a
\* version with a v, two versions, a tag that is no version, and '..'
ClgenTagListings ==
    { <<>>,   \* ''
      <<"1", ".", "0", ".", "0", "\n">>,   \* '1.0.0\n'
      <<"v", "1", ".", "0", ".", "0", "\n">>,   \* 'v1.0.0\n'
      <<"0", ".", "1", ".", "0", "\n", "V", "1", ".", "1", ".", "0", "\n">>,   \* '0.1.0\nV1.1.0\n'
      <<"n", "i", "g", "h", "t", "l", "y", "\n">>,   \* 'nightly\n'
      <<".", ".", "\n">> }   \* '..\n'

VerboseFlag == <<"-", "-", "v", "e", "r", "b", "o", "s", "e">>

ClgenArgvs == {<<>>, <<VerboseFlag>>}

---------------------------------------------------------------------------
(* tools/clgen.py *)

\* s.rfind(c) for a single character c, as a position from 1 (0 when absent)
RFind(s, c) ==
    IF \E i \in 1..Len(s) : s[i] = c
    THEN CHOOSE i \in 1..Len(s) : s[i] = c /\ \A j \in (i + 1)..Len(s) : s[j] # c
    ELSE 0

\* s.replace(old, new) for a non-empty old
RECURSIVE Replace(_, _, _)
Replace(s, old, new) ==
    IF Len(s) < Len(old) THEN s
    ELSE IF StartsWith(s, old)
         THEN new \o Replace(SubSeq(s, Len(old) + 1, Len(s)), old, new)
    ELSE <<Head(s)>> \o Replace(Tail(s), old, new)

\* s.replace(old, new, 1)
ReplaceFirst(s, old, new) ==
    IF Find(s, old) = 0 THEN s
    ELSE SubSeq(s, 1, Find(s, old) - 1) \o new
            \o SubSeq(s, Find(s, old) + Len(old), Len(s))

\* line 20

FILEPATH == <<".", "/", "C", "H", "A", "N", "G", "E", "L", "O", "G", "_", "M", "E", "R", "G", "E", ".", "m", "d">>

\* lines 22-32: the keys in the order of the dictionary, and its values
PrefixKeys ==
    << <<"f", "e", "a", "t">>,   \* 'feat'
       <<"m", "o", "d">>,   \* 'mod'
       <<"f", "i", "x">>,   \* 'fix'
       <<"d", "o", "c", "s">>,   \* 'docs'
       <<"t", "e", "s", "t">>,   \* 'test'
       <<"d", "e", "p", "r", "e", "c">>,   \* 'deprec'
       <<"r", "e", "m", "o", "v", "e">>,   \* 'remove'
       <<"p", "e", "r", "f">>,   \* 'perf'
       <<"c", "i">> >>   \* 'ci'

prefix_map ==
    (<<"f", "e", "a", "t">> :> <<"F", "e", "a", "t", "u", "r", "e", "s">>)   \* 'feat': 'Features'
    @@ (<<"m", "o", "d">> :> <<"O", "t", "h", "e", "r", " ", "C", "h", "a", "n", "g", "e", "s">>)   \* 'mod': 'Other Changes'
    @@ (<<"f", "i", "x">> :> <<"F", "i", "x", "e", "s">>)   \* 'fix': 'Fixes'
    @@ (<<"d", "o", "c", "s">> :> <<"D", "o", "c", "u", "m", "e", "n", "t", "a", "t", "i", "o", "n">>)   \* 'docs': 'Documentation'
    @@ (<<"t", "e", "s", "t">> :> <<"T", "e", "s", "t", "s">>)   \* 'test': 'Tests'
    @@ (<<"d", "e", "p", "r", "e", "c">> :> <<"D", "e", "p", "r", "e", "c", "a", "t", "e", "s">>)   \* 'deprec': 'Deprecates'
    @@ (<<"r", "e", "m", "o", "v", "e">> :> <<"R", "e", "m", "o", "v", "e", "s">>)   \* 'remove': 'Removes'
    @@ (<<"p", "e", "r", "f">> :> <<"O", "t", "h", "e", "r", " ", "C", "h", "a", "n", "g", "e", "s">>)   \* 'perf': 'Other Changes'
    @@ (<<"c", "i">> :> <<"C", "o", "n", "t", "i", "n", "u", "o", "u", "s", " ", "I", "n", "t", "e", "g", "r", "a", "t", "i", "o", "n">>)   \* 'ci': 'Continuous Integration'

\* line 35
include ==
    << <<"f", "e", "a", "t">>,   \* 'feat'
       <<"f", "i", "x">>,   \* 'fix'
       <<"m", "o", "d">>,   \* 'mod'
       <<"d", "e", "p", "r", "e", "c">>,   \* 'deprec'
       <<"r", "e", "m", "o", "v", "e">>,   \* 'remove'
       <<"d", "o", "c", "s">> >>   \* 'docs'

\* lines 38-40: an empty list for each category
Categories == {prefix_map[PrefixKeys[i]] : i \in 1..Len(PrefixKeys)}
EmptyMapping == [p \in Categories |-> <<>>]

\* lines 52-54
closers ==
    << <<"c", "l", "o", "s", "e", " ">>,   \* 'close '
       <<"r", "e", "s", "o", "l", "v", "e", " ">>,   \* 'resolve '
       <<"f", "i", "x", " ">>,   \* 'fix '
       <<"c", "l", "o", "s", "e", "s", " ">>,   \* 'closes '
       <<"r", "e", "s", "o", "l", "v", "e", "s", " ">>,   \* 'resolves '
       <<"f", "i", "x", "e", "s", " ">>,   \* 'fixes '
       <<"c", "l", "o", "s", "e", "d", " ">>,   \* 'closed '
       <<"r", "e", "s", "o", "l", "v", "e", "d", " ">>,   \* 'resolved '
       <<"f", "i", "x", "e", "d", " ">> >>   \* 'fixed '

\* lines 56-57
RECURSIVE RemoveClosers(_, _)
RemoveClosers(issue, cs) ==
    IF cs = <<>> THEN issue
    ELSE RemoveClosers(Replace(issue, Head(cs), <<>>), Tail(cs))

\* lines 49-59: the commit with the closing keywords removed from the text
\* after its last '(' when a '#' follows that '('
Recombined(commit) ==
    LET hash  == RFind(commit, "#")
        paren == RFind(commit, "(")
    IN  IF hash > paren /\ paren > 1
        THEN SubSeq(commit, 1, paren - 1) \o <<"(">>
                \o RemoveClosers(Lower(SubSeq(commit, paren + 1, Len(commit))), closers)
        ELSE commit

\* lines 43-65: the value returned and the mapping left behind
parse(map, prefix, commit) ==
    LET key == prefix \o <<":">>
        c   == Recombined(commit)
    IN  IF StartsWith(c, key)
        THEN [ret |-> TRUE,
              mapping |-> [map EXCEPT ![prefix_map[prefix]] =
                                         @ \o <<ReplaceFirst(c, key, <<"-">>)>>]]
        ELSE [ret |-> FALSE, mapping |-> map]

---------------------------------------------------------------------------
(* tools/autocl.py *)

\* is_finalized without the lower() of line 28
is_finalized_case_sensitive(header) == Bool(Find(header, Unreleased) = 0)

\* lines 26-28
is_finalized(header) == Bool(Find(Lower(header), Unreleased) = 0)

\* versions_match without the drop of the leading 'v' (lines 38-39)
versions_match_keeps_v(requested_version, header) ==
    LET token == FirstToken(Strip(SubSeq(header, 3, Len(header))))
    IN  IF IsRaise(token) THEN token
        ELSE Bool(token.val = requested_version)

\* lines 31-40
versions_match(requested_version, header) ==
    LET token == FirstToken(Strip(SubSeq(header, 3, Len(header))))
    IN  IF IsRaise(token) THEN token
        ELSE Bool(DropV(token.val) = requested_version)

\* get_version_header with 'in' for startswith (line 46)
RECURSIVE get_version_header_anywhere(_)
get_version_header_anywhere(lines) ==
    IF lines = <<>> THEN NoneV
    ELSE IF Find(Head(lines), Marker) # 0 THEN Str(Head(lines))
    ELSE get_version_header_anywhere(Tail(lines))

\* lines 43-48
RECURSIVE get_version_header(_)
get_version_header(lines) ==
    IF lines = <<>> THEN NoneV
    ELSE IF StartsWith(Head(lines), Marker) THEN Str(Head(lines))
    ELSE get_version_header(Tail(lines))

\* the for loop with the elif of line 59 turned into an if: the marker line
\* that starts the recording is recorded too
RECURSIVE RecordFromWithMarker(_, _, _)
RecordFromWithMarker(lines, recording, text) ==
    IF lines = <<>> THEN text
    ELSE IF StartsWith(Head(lines), Marker)
         THEN IF recording THEN text
              ELSE RecordFromWithMarker(Tail(lines), TRUE, text \o Head(lines))
    ELSE IF recording
         THEN RecordFromWithMarker(Tail(lines), recording, text \o Head(lines))
    ELSE RecordFromWithMarker(Tail(lines), recording, text)

\* lines 55-61: the for loop, from the remaining lines on
RECURSIVE RecordFrom(_, _, _)
RecordFrom(lines, recording, text) ==
    IF lines = <<>> THEN text
    ELSE IF StartsWith(Head(lines), Marker)
         THEN IF recording THEN text
              ELSE RecordFrom(Tail(lines), TRUE, text)
    ELSE IF recording THEN RecordFrom(Tail(lines), recording, text \o Head(lines))
    ELSE RecordFrom(Tail(lines), recording, text)

\* extract_recent_version_changes without the strip of line 62
extract_recent_version_changes_untrimmed(lines) ==
    Str(RecordFrom(lines, FALSE, <<>>))

\* lines 51-63
extract_recent_version_changes(lines) == Str(Strip(RecordFrom(lines, FALSE, <<>>)))

---------------------------------------------------------------------------
(* The unit harness: one call of one function on drawn arguments *)

Pending == [tag |-> "pending", val |-> <<>>]

Call(fn, args) == [fn |-> fn, args |-> args]

Apply(c) ==
    CASE c.fn = "is_new_version_higher" ->
             is_new_version_higher(c.args[1], c.args[2])
      [] c.fn = "extract_latest_released_version" ->
             extract_latest_released_version(c.args[1])
      [] c.fn = "versions_match" ->
             versions_match(c.args[1], c.args[2])
      [] c.fn = "extract_recent_version_changes" ->
             extract_recent_version_changes(c.args[1])
      [] c.fn = "extract_crate_version" ->
             extract_crate_version(c.args[1])
      [] c.fn = "is_finalized" ->
             is_finalized(c.args[1])
      [] c.fn = "get_version_header" ->
             get_version_header(c.args[1])

\* the call returns, or raises
Return ==
    /\ ret = Pending
    /\ ret' = Apply(call)
    /\ UNCHANGED <<call, mainVars, toolVars>>

\* the variables of clgen, download and license before these scripts run
ClgenIdle == commits = NoneV /\ mapping = NoneV /\ log = NoneV
DownloadIdle == urls = <<>> /\ zips = <<>> /\ ORBIT_QUEUE = NoneV /\ dl_count = 0
LicenseIdle ==
    /\ files = <<>>
    /\ source = 0
    /\ latest = 0
    /\ updating = 0
    /\ missing = 0
    /\ run = 0
ToolsIdle == ClgenIdle /\ DownloadIdle /\ runs = <<>> /\ LicenseIdle

\* no script is running
MainIdle ==
    /\ pc = "idle"
    /\ argv = <<>>
    /\ manifest = NoneV
    /\ tags = NoneV
    /\ contents = NoneV
    /\ current_version = NoneV
    /\ last_version = NoneV
    /\ version_header = NoneV
    /\ info = NoneV
    /\ stdout = <<>>
    /\ outcome = [kind |-> "idle", msg |-> ""]
    /\ ToolsIdle

UnitIdle == call = Call("none", <<>>) /\ ret = Pending

InitCmp ==
    /\ call \in {Call("is_new_version_higher", <<l, r>>) : l, r \in CmpStrings}
    /\ ret = Pending
    /\ MainIdle

SpecCmp == InitCmp /\ [][Return]_vars

InitTags ==
    /\ call \in {Call("extract_latest_released_version", <<t>>) : t \in TagListings}
    /\ ret = Pending
    /\ MainIdle

SpecTags == InitTags /\ [][Return]_vars

InitMatch ==
    /\ call \in {Call("versions_match", <<v, h>>) :
                    v \in RequestedVersions, h \in Headers}
    /\ ret = Pending
    /\ MainIdle

SpecMatch == InitMatch /\ [][Return]_vars

InitChanges ==
    /\ call \in {Call("extract_recent_version_changes", <<doc>>) : doc \in Changelogs}
    /\ ret = Pending
    /\ MainIdle

SpecChanges == InitChanges /\ [][Return]_vars

InitCrate ==
    /\ call \in {Call("extract_crate_version", <<m>>) : m \in ManifestTexts}
    /\ ret = Pending
    /\ MainIdle

SpecCrate == InitCrate /\ [][Return]_vars

InitFinalized ==
    /\ call \in {Call("is_finalized", <<h>>) : h \in FinalizedHeaders}
    /\ ret = Pending
    /\ MainIdle

SpecFinalized == InitFinalized /\ [][Return]_vars

InitHeader ==
    /\ call \in {Call("get_version_header", <<doc>>) : doc \in HeaderDocs}
    /\ ret = Pending
    /\ MainIdle

SpecHeader == InitHeader /\ [][Return]_vars

---------------------------------------------------------------------------
(* tools/evalver.py, main *)

Running == [kind |-> "running", msg |-> ""]
Exit(msg) == [kind |-> "exit", msg |-> msg]
Uncaught(exc) == [kind |-> "raise", msg |-> exc.val[1]]

\* print(x)
Printed(out, x) == Append(out, x)

\* the diagnostic of line 78
NoVersionMsg == "error: bad cargo crate manifest file (could not find version)"

\* the process ended normally
Success == Exit("")

\* lines 73-83: read the manifest; without a version the script ends with a
\* diagnostic, with --version it prints the version and ends
EvalverManifest ==
    /\ pc = "start"
    /\ \E m \in Manifests :
         /\ manifest' = List(m)
         /\ current_version' = extract_crate_version(m)
    /\ IF current_version' = NoneV
       THEN /\ outcome' = Exit(NoVersionMsg)
            /\ pc' = "done"
            /\ stdout' = stdout
       ELSE IF Count(argv, VersionFlag) # 0
       THEN /\ stdout' = Printed(stdout, current_version'.val)
            /\ outcome' = Success
            /\ pc' = "done"
       ELSE /\ pc' = "tags"
            /\ UNCHANGED <<stdout, outcome>>
    /\ UNCHANGED <<argv, tags, contents, last_version, version_header, info, unitVars, toolVars>>

\* int(b) as print shows it
IntOfBool(b) == IF b = True THEN <<"1">> ELSE <<"0">>

\* lines 85-92: list the tags, take the last tagged version (0.0.0 without
\* one), and print whether the manifest's version is higher
EvalverCompare ==
    /\ pc = "tags"
    /\ \E t \in TagListings :
       \E found \in {extract_latest_released_version(t)} :
         /\ tags' = Str(t)
         /\ IF IsRaise(found)
            THEN /\ outcome' = Uncaught(found)
                 /\ UNCHANGED <<last_version, stdout>>
            ELSE /\ last_version' = IF found = NoneV THEN Str(ZeroVer) ELSE found
                 /\ \E higher \in {is_new_version_higher(last_version'.val,
                                                          current_version.val)} :
                      IF IsRaise(higher)
                      THEN /\ outcome' = Uncaught(higher)
                           /\ stdout' = stdout
                      ELSE /\ stdout' = Printed(stdout, IntOfBool(higher))
                           /\ outcome' = Success
    /\ pc' = "done"
    /\ UNCHANGED <<argv, manifest, contents, current_version, version_header, info, unitVars, toolVars>>

Init ==
    /\ pc = "start"
    /\ argv \in {<<>>, <<VersionFlag>>}
    /\ manifest = NoneV
    /\ tags = NoneV
    /\ contents = NoneV
    /\ current_version = NoneV
    /\ last_version = NoneV
    /\ version_header = NoneV
    /\ info = NoneV
    /\ stdout = <<>>
    /\ outcome = Running
    /\ UnitIdle
    /\ ToolsIdle

Next == EvalverManifest \/ EvalverCompare

Spec == Init /\ [][Next]_vars

---------------------------------------------------------------------------
(* tools/autocl.py, main *)

\* the diagnostics of lines 68, 75, 82, 85, 88 and 93, without the version
\* that main appends to the last three
UsageMsg        == "error: accepts a single argument <version>"
NotFoundMsg     == "error: changelog file not found ./CHANGELOG.md"
NoEntryMsg      == "error: no version entry found in changelog"
MismatchMsg     == "error: changelog is not sync with Cargo crate manifest version"
NotFinalizedMsg == "error: most recent changelog version entry is marked as 'unreleased'"
EmptyBodyMsg    == "error: document changes before releasing version"

\* lines 67-75: one argument is required, and ./CHANGELOG.md must exist
AutoclArgs ==
    /\ pc = "start"
    /\ IF Len(argv) # 1
       THEN /\ outcome' = Exit(UsageMsg)
            /\ pc' = "done"
            /\ UNCHANGED <<current_version, contents>>
       ELSE /\ current_version' = Str(argv[1])
            /\ \/ /\ contents' = NoneV
                  /\ outcome' = Exit(NotFoundMsg)
                  /\ pc' = "done"
               \/ /\ \E doc \in Changelogs : contents' = List(doc)
                  /\ outcome' = outcome
                  /\ pc' = "header"
    /\ UNCHANGED <<argv, manifest, tags, last_version, version_header, info,
                   stdout, unitVars, toolVars>>

\* lines 77-82: the most recent version header
AutoclHeader ==
    /\ pc = "header"
    /\ version_header' = get_version_header(contents.val)
    /\ IF version_header' = NoneV
       THEN /\ outcome' = Exit(NoEntryMsg)
            /\ pc' = "done"
       ELSE /\ outcome' = outcome
            /\ pc' = "match"
    /\ UNCHANGED <<argv, manifest, tags, contents, current_version, last_version,
                   info, stdout, unitVars, toolVars>>

\* AutoclMatch with the check of lines 87-88 moved before that of lines 84-85
AutoclMatchAfterFinalized ==
    /\ pc = "match"
    /\ LET match == versions_match(current_version.val, version_header.val)
       IN  IF is_finalized(version_header.val) = False
           THEN /\ outcome' = Exit(NotFinalizedMsg)
                /\ pc' = "done"
           ELSE IF IsRaise(match)
           THEN outcome' = Uncaught(match) /\ pc' = "done"
           ELSE IF match = False
           THEN /\ outcome' = Exit(MismatchMsg)
                /\ pc' = "done"
           ELSE outcome' = outcome /\ pc' = "finalized"
    /\ UNCHANGED <<argv, manifest, tags, contents, current_version, last_version,
                   version_header, info, stdout, unitVars, toolVars>>

\* lines 84-85: the header's version is the requested one
AutoclMatch ==
    /\ pc = "match"
    /\ LET match == versions_match(current_version.val, version_header.val)
       IN  IF IsRaise(match)
           THEN outcome' = Uncaught(match) /\ pc' = "done"
           ELSE IF match = False
           THEN /\ outcome' = Exit(MismatchMsg)
                /\ pc' = "done"
           ELSE outcome' = outcome /\ pc' = "finalized"
    /\ UNCHANGED <<argv, manifest, tags, contents, current_version, last_version,
                   version_header, info, stdout, unitVars, toolVars>>

\* lines 87-88: the header is not marked unreleased
AutoclFinalized ==
    /\ pc = "finalized"
    /\ IF is_finalized(version_header.val) = False
       THEN /\ outcome' = Exit(NotFinalizedMsg)
            /\ pc' = "done"
       ELSE outcome' = outcome /\ pc' = "body"
    /\ UNCHANGED <<argv, manifest, tags, contents, current_version, last_version,
                   version_header, info, stdout, unitVars, toolVars>>

\* lines 90-95: the entry's text, which must not be empty, is printed
AutoclBody ==
    /\ pc = "body"
    /\ info' = extract_recent_version_changes(contents.val)
    /\ IF Len(info'.val) = 0
       THEN /\ outcome' = Exit(EmptyBodyMsg)
            /\ stdout' = stdout
       ELSE /\ stdout' = Printed(stdout, info'.val)
            /\ outcome' = Success
    /\ pc' = "done"
    /\ UNCHANGED <<argv, manifest, tags, contents, current_version, last_version,
                   version_header, unitVars, toolVars>>

InitAutocl ==
    /\ pc = "start"
    /\ argv \in AutoclArgvs
    /\ manifest = NoneV
    /\ tags = NoneV
    /\ contents = NoneV
    /\ current_version = NoneV
    /\ last_version = NoneV
    /\ version_header = NoneV
    /\ info = NoneV
    /\ stdout = <<>>
    /\ outcome = Running
    /\ UnitIdle
    /\ ToolsIdle

NextAutocl ==
    AutoclArgs \/ AutoclHeader \/ AutoclMatch \/ AutoclFinalized \/ AutoclBody

SpecAutocl == InitAutocl /\ [][NextAutocl]_vars

---------------------------------------------------------------------------
(* tools/clgen.py, main *)

GitTagCmd == <<"g", "i", "t", " ", "t", "a", "g", " ", "-", "-", "l", "i", "s", "t">>
GitLogCmd == <<"g", "i", "t", " ", "l", "o", "g", " ", "-", "-", "p", "r", "e", "t", "t", "y", "=", "f", "o", "r", "m", "a", "t", ":", "\"", "%", "s", "\"", " ">>
NoCommitsMsg == "error: no commits found in the repository"
SkippingMsg(c) == <<"w", "a", "r", "n", "i", "n", "g", ":", " ", "s", "k", "i", "p", "p", "i", "n", "g", " ", "'">> \o c \o <<"'">>
WrittenMsg == <<"i", "n", "f", "o", ":", " ", "C", "h", "a", "n", "g", "e", "l", "o", "g", " ", "w", "r", "i", "t", "t", "e", "n", " ", "t", "o", ":", " ">> \o FILEPATH
NoChangesText == <<"_", "T", "h", "e", "r", "e", " ", "a", "r", "e", " ", "n", "o", " ", "d", "o", "c", "u", "m", "e", "n", "t", "e", "d", " ", "c", "h", "a", "n", "g", "e", "s", " ", "f", "o", "r", " ", "t", "h", "i", "s", " ", "r", "e", "l", "e", "a", "s", "e", ".", "_", "\n", "\n">>
SectionText(category) == <<"\n", "#", "#", "#", " ">> \o category \o <<"\n">>

\* lines 93-95: the first prefix of keys that parse accepts
RECURSIVE TryPrefixes(_, _, _)
TryPrefixes(map, c, keys) ==
    IF keys = <<>> THEN [ret |-> FALSE, mapping |-> map]
    ELSE LET parsed == parse(map, Head(keys), c)
         IN  IF parsed.ret THEN parsed ELSE TryPrefixes(map, c, Tail(keys))

\* lines 90-99: the mapping and the warnings after the remaining lines
RECURSIVE ScanCommits(_, _, _, _)
ScanCommits(map, out, lines, verbose) ==
    IF lines = <<>> THEN [mapping |-> map, stdout |-> out]
    ELSE IF Len(Head(lines)) = 0 THEN ScanCommits(map, out, Tail(lines), verbose)
    ELSE LET tried == TryPrefixes(map, Head(lines), PrefixKeys)
         IN  ScanCommits(tried.mapping,
                         IF ~tried.ret /\ verbose = 1
                         THEN Printed(out, SkippingMsg(Head(lines))) ELSE out,
                         Tail(lines), verbose)

\* lines 109-110
RECURSIVE WriteEntries(_)
WriteEntries(entries) ==
    IF entries = <<>> THEN <<>>
    ELSE <<Head(entries) \o <<"\n">>>> \o WriteEntries(Tail(entries))

\* lines 104-111: the writes for the remaining prefixes of the include list
RECURSIVE WriteIncluded(_, _)
WriteIncluded(map, ks) ==
    IF ks = <<>> THEN <<>>
    ELSE LET entries == map[prefix_map[Head(ks)]]
         IN  (IF Len(entries) # 0 THEN <<SectionText(prefix_map[Head(ks)])>> ELSE <<>>)
                \o WriteEntries(entries) \o WriteIncluded(map, Tail(ks))

\* lines 102-113: everything written to the file
WriteLog(map) ==
    IF \A i \in 1..Len(include) : Len(map[prefix_map[include[i]]]) = 0
    THEN <<NoChangesText>>
    ELSE WriteIncluded(map, include)

\* lines 71-79: list the tags and build the revision range
ClgenTags ==
    /\ pc = "start"
    /\ \E t \in ClgenTagListings :
       \E found \in {extract_latest_released_version(t)} :
         /\ tags' = Str(t)
         /\ IF IsRaise(found)
            THEN /\ outcome' = Uncaught(found)
                 /\ pc' = "done"
                 /\ UNCHANGED last_version
            ELSE /\ last_version' = Str(IF found = NoneV THEN <<>>
                                        ELSE found.val \o <<".", ".">>)
                 /\ pc' = "log"
                 /\ UNCHANGED outcome
    /\ runs' = Append(runs, <<GitTagCmd>>)
    /\ UNCHANGED <<argv, manifest, contents, current_version, version_header, info,
                   stdout, unitVars, clgenVars, downloadVars, licenseVars>>

\* lines 82-87: list the commits of the range; git prints them or fails
ClgenLog ==
    /\ pc = "log"
    /\ runs' = Append(runs, <<GitLogCmd \o last_version.val>>)
    /\ \/ /\ \E text \in CommitLogs : commits' = Str(Strip(text))
          /\ pc' = "scan"
          /\ UNCHANGED outcome
       \/ /\ outcome' = Exit(NoCommitsMsg)
          /\ pc' = "done"
          /\ UNCHANGED commits
    /\ UNCHANGED <<argv, manifest, tags, contents, current_version, last_version,
                   version_header, info, stdout, unitVars, mapping, log,
                   downloadVars, licenseVars>>

\* lines 89-115: sort the commits into the mapping, write the file, report
ClgenWrite ==
    /\ pc = "scan"
    /\ \E scanned \in {ScanCommits(mapping, stdout, SplitLines(commits.val),
                                    Count(argv, VerboseFlag))} :
         /\ mapping' = scanned.mapping
         /\ log' = List(WriteLog(scanned.mapping))
         /\ stdout' = Printed(scanned.stdout, WrittenMsg)
    /\ outcome' = Success
    /\ pc' = "done"
    /\ UNCHANGED <<argv, manifest, tags, contents, current_version, last_version,
                   version_header, info, unitVars, commits, runs,
                   downloadVars, licenseVars>>

InitClgen ==
    /\ pc = "start"
    /\ argv \in ClgenArgvs
    /\ manifest = NoneV
    /\ tags = NoneV
    /\ contents = NoneV
    /\ current_version = NoneV
    /\ last_version = NoneV
    /\ version_header = NoneV
    /\ info = NoneV
    /\ stdout = <<>>
    /\ outcome = Running
    /\ UnitIdle
    /\ commits = NoneV
    /\ mapping = EmptyMapping
    /\ log = NoneV
    /\ DownloadIdle
    /\ runs = <<>>
    /\ LicenseIdle

NextClgen == ClgenTags \/ ClgenLog \/ ClgenWrite

SpecClgen == InitClgen /\ [][NextClgen]_vars

---------------------------------------------------------------------------
(* Inputs of the downloader *)

\* the most URLs given
MaxUrls == 3

\* URLs as the command line or the lines of the list file give them: ending
\* in '.zip', also with a newline or blanks around, other endings, and an
\* empty line
DownloadUrls ==
    { <<"h", "/", "a", ".", "z", "i", "p">>,   \* 'h/a.zip'
      <<"h", "/", "b", ".", "z", "i", "p", "\n">>,   \* 'h/b.zip\n'
      <<" ", "h", "/", "c", ".", "z", "i", "p", " ">>,   \* ' h/c.zip '
      <<"h", "/", "d", ".", "t", "a", "r">>,   \* 'h/d.tar'
      <<"h", "/", "e", ".", "Z", "I", "P">>,   \* 'h/e.ZIP'
      <<"h", "/", "f", ".", "z", "i", "p", ".", "s", "i", "g", "\n">>,   \* 'h/f.zip.sig\n'
      <<"\n">> }   \* '\n'

UrlLists == StringsUpTo(DownloadUrls, MaxUrls)

\* the value of ORBIT_QUEUE when it is set
QueuePath == <<"/", "q">>

---------------------------------------------------------------------------
(* download.py *)

\* s.endswith(p)
EndsWith(s, p) == Len(s) >= Len(p) /\ SubSeq(s, Len(s) - Len(p) + 1, Len(s)) = p

\* str(n) for a natural number n
RECURSIVE StrOfInt(_)
StrOfInt(n) ==
    LET digit == <<"0", "1", "2", "3", "4", "5", "6", "7", "8", "9">>
    IN  IF n < 10 THEN <<digit[n + 1]>>
        ELSE StrOfInt(n \div 10) \o <<digit[(n % 10) + 1]>>

\* str(x) as print shows a value
Shown(v) == IF v = NoneV THEN <<"N", "o", "n", "e">> ELSE v.val

ZipSuffix == <<".", "z", "i", "p">>
NoUrlsMsg == <<"e", "r", "r", "o", "r", ":", " ", "S", "c", "r", "i", "p", "t", " ", "r", "e", "q", "u", "i", "r", "e", "s", " ", "U", "R", "L", "s", " ", "a", "s", " ", "c", "o", "m", "m", "a", "n", "d", "-", "l", "i", "n", "e", " ", "a", "r", "g", "u", "m", "e", "n", "t", "s">>
UnsupportedMsg(url) == <<"w", "a", "r", "n", "i", "n", "g", ":", " ", "U", "n", "s", "u", "p", "p", "o", "r", "t", "e", "d", " ", "U", "R", "L", " ", "'">> \o url \o <<"'">>
IdentifyingMsg == <<"i", "n", "f", "o", ":", " ", "I", "d", "e", "n", "t", "i", "f", "y", "i", "n", "g", " ", "d", "o", "w", "n", "l", "o", "a", "d", " ", "d", "e", "s", "t", "i", "n", "a", "t", "i", "o", "n", " ", ".", ".", ".">>
DirectoryMsg(queue) == <<"i", "n", "f", "o", ":", " ", "D", "o", "w", "n", "l", "o", "a", "d", " ", "d", "i", "r", "e", "c", "t", "o", "r", "y", ":", " ">> \o Shown(queue)
DownloadingMsg(n) == <<"i", "n", "f", "o", ":", " ", "D", "o", "w", "n", "l", "o", "a", "d", "i", "n", "g", " ">> \o StrOfInt(n) \o <<" ", "p", "a", "c", "k", "a", "g", "e", "(", "s", ")", " ", ".", ".", ".">>

OrbitEnvArgs == <<<<"o", "r", "b", "i", "t">>, <<"e", "n", "v">>, <<"O", "R", "B", "I", "T", "_", "Q", "U", "E", "U", "E">>>>

\* lines 25-32: the supported URLs and the warnings after the remaining URLs
RECURSIVE FilterUrls(_, _, _)
FilterUrls(list, kept, out) ==
    IF list = <<>> THEN [zips |-> kept, stdout |-> out]
    ELSE LET url == Strip(Head(list))
         IN  IF EndsWith(url, ZipSuffix)
             THEN FilterUrls(Tail(list), kept \o <<url>>, out)
             ELSE FilterUrls(Tail(list), kept, Printed(out, UnsupportedMsg(url)))

\* line 45 with the counter left out of the name
dest_without_count(queue, count) == queue \o <<"/">> \o ZipSuffix

\* line 45
dest(queue, count) == queue \o <<"/">> \o StrOfInt(count) \o ZipSuffix

\* what every step of download.py leaves alone
DownloadFrame ==
    UNCHANGED <<argv, manifest, tags, contents, current_version, last_version,
                version_header, info, unitVars, clgenVars, licenseVars>>

\* lines 21-34: refuse an empty list, keep the URLs that end in '.zip'
DownloadFilter ==
    /\ pc = "start"
    /\ IF Len(urls) = 0
       THEN /\ stdout' = Printed(stdout, NoUrlsMsg)
            /\ outcome' = Exit("101")
            /\ pc' = "done"
            /\ UNCHANGED zips
       ELSE /\ \E filtered \in {FilterUrls(urls, <<>>, stdout)} :
                 /\ zips' = filtered.zips
                 /\ stdout' = Printed(filtered.stdout, IdentifyingMsg)
            /\ pc' = "queue"
            /\ UNCHANGED outcome
    /\ UNCHANGED <<urls, ORBIT_QUEUE, dl_count, runs>>
    /\ DownloadFrame

\* lines 36-43: ask orbit for the queue, enter it (a TypeError without the
\* environment variable), start the counter
DownloadQueue ==
    /\ pc = "queue"
    /\ runs' = Append(runs, OrbitEnvArgs)
    /\ IF ORBIT_QUEUE = NoneV
       THEN /\ stdout' = Printed(stdout, DirectoryMsg(ORBIT_QUEUE))
            /\ outcome' = Uncaught(Raise("TypeError"))
            /\ pc' = "done"
       ELSE /\ stdout' = Printed(Printed(stdout, DirectoryMsg(ORBIT_QUEUE)),
                                  DownloadingMsg(Len(zips)))
            /\ IF Len(zips) = 0
               THEN outcome' = Success /\ pc' = "done"
               ELSE outcome' = outcome /\ pc' = "curl"
    /\ dl_count' = 0
    /\ UNCHANGED <<urls, zips, ORBIT_QUEUE>>
    /\ DownloadFrame

\* lines 44-47: download the next zip file with curl
DownloadCurl ==
    /\ pc = "curl"
    /\ runs' = Append(runs, <<<<"c", "u", "r", "l">>, <<"-", "L">>, zips[dl_count + 1],
                               <<"-", "o">>, dest(ORBIT_QUEUE.val, dl_count)>>)
    /\ pc' = "unzip"
    /\ UNCHANGED <<urls, zips, ORBIT_QUEUE, dl_count, stdout, outcome>>
    /\ DownloadFrame

\* line 49: unzip it
DownloadUnzip ==
    /\ pc = "unzip"
    /\ runs' = Append(runs, <<<<"u", "n", "z", "i", "p">>, <<"-", "q", "o">>, dest(ORBIT_QUEUE.val, dl_count)>>)
    /\ pc' = "rm"
    /\ UNCHANGED <<urls, zips, ORBIT_QUEUE, dl_count, stdout, outcome>>
    /\ DownloadFrame

\* lines 51-53: remove it, count it, and go on with the next zip file
DownloadRm ==
    /\ pc = "rm"
    /\ runs' = Append(runs, <<<<"r", "m">>, dest(ORBIT_QUEUE.val, dl_count)>>)
    /\ dl_count' = dl_count + 1
    /\ IF dl_count' < Len(zips)
       THEN pc' = "curl" /\ outcome' = outcome
       ELSE pc' = "done" /\ outcome' = Success
    /\ UNCHANGED <<urls, zips, ORBIT_QUEUE, stdout>>
    /\ DownloadFrame

InitDownload ==
    /\ pc = "start"
    /\ argv = <<>>
    /\ manifest = NoneV
    /\ tags = NoneV
    /\ contents = NoneV
    /\ current_version = NoneV
    /\ last_version = NoneV
    /\ version_header = NoneV
    /\ info = NoneV
    /\ stdout = <<>>
    /\ outcome = Running
    /\ UnitIdle
    /\ ClgenIdle
    /\ urls \in UrlLists
    /\ zips = <<>>
    /\ ORBIT_QUEUE \in {NoneV, Str(QueuePath)}
    /\ dl_count = 0
    /\ runs = <<>>
    /\ LicenseIdle

NextDownload ==
    DownloadFilter \/ DownloadQueue \/ DownloadCurl \/ DownloadUnzip \/ DownloadRm

SpecDownload == InitDownload /\ [][NextDownload]_vars

---------------------------------------------------------------------------
(* tools/license.py *)

\* lines 6-23
NEW_HEADER ==
    <<"/", "/", "\n">>  \* //
    \o <<"/", "/", " ", " ", "C", "o", "p", "y", "r", "i", "g", "h", "t", " ", "(", "C", ")", " ", "2", "0", "2", "2", "-", "2", "0", "2", "4", " ", " ", "C", "h", "a", "s", "e", " ", "R", "u", "s", "k", "i", "n", "\n">>  \* //  Copyright (C) 2022-2024  Chase Ruskin
    \o <<"/", "/", "\n">>  \* //
    \o <<"/", "/", " ", " ", "T", "h", "i", "s", " ", "p", "r", "o", "g", "r", "a", "m", " ", "i", "s", " ", "f", "r", "e", "e", " ", "s", "o", "f", "t", "w", "a", "r", "e", ":", " ", "y", "o", "u", " ", "c", "a", "n", " ", "r", "e", "d", "i", "s", "t", "r", "i", "b", "u", "t", "e", " ", "i", "t", " ", "a", "n", "d", "/", "o", "r", " ", "m", "o", "d", "i", "f", "y", "\n">>  \* //  This program is free software: you can redistribute it and/or modify
    \o <<"/", "/", " ", " ", "i", "t", " ", "u", "n", "d", "e", "r", " ", "t", "h", "e", " ", "t", "e", "r", "m", "s", " ", "o", "f", " ", "t", "h", "e", " ", "G", "N", "U", " ", "G", "e", "n", "e", "r", "a", "l", " ", "P", "u", "b", "l", "i", "c", " ", "L", "i", "c", "e", "n", "s", "e", " ", "a", "s", " ", "p", "u", "b", "l", "i", "s", "h", "e", "d", " ", "b", "y", "\n">>  \* //  it under the terms of the GNU General Public License as published by
    \o <<"/", "/", " ", " ", "t", "h", "e", " ", "F", "r", "e", "e", " ", "S", "o", "f", "t", "w", "a", "r", "e", " ", "F", "o", "u", "n", "d", "a", "t", "i", "o", "n", ",", " ", "e", "i", "t", "h", "e", "r", " ", "v", "e", "r", "s", "i", "o", "n", " ", "3", " ", "o", "f", " ", "t", "h", "e", " ", "L", "i", "c", "e", "n", "s", "e", ",", " ", "o", "r", "\n">>  \* //  the Free Software Foundation, either version 3 of the License, or
    \o <<"/", "/", " ", " ", "(", "a", "t", " ", "y", "o", "u", "r", " ", "o", "p", "t", "i", "o", "n", ")", " ", "a", "n", "y", " ", "l", "a", "t", "e", "r", " ", "v", "e", "r", "s", "i", "o", "n", ".", "\n">>  \* //  (at your option) any later version.
    \o <<"/", "/", "\n">>  \* //
    \o <<"/", "/", " ", " ", "T", "h", "i", "s", " ", "p", "r", "o", "g", "r", "a", "m", " ", "i", "s", " ", "d", "i", "s", "t", "r", "i", "b", "u", "t", "e", "d", " ", "i", "n", " ", "t", "h", "e", " ", "h", "o", "p", "e", " ", "t", "h", "a", "t", " ", "i", "t", " ", "w", "i", "l", "l", " ", "b", "e", " ", "u", "s", "e", "f", "u", "l", ",", "\n">>  \* //  This program is distributed in the hope that it will be useful,
    \o <<"/", "/", " ", " ", "b", "u", "t", " ", "W", "I", "T", "H", "O", "U", "T", " ", "A", "N", "Y", " ", "W", "A", "R", "R", "A", "N", "T", "Y", ";", " ", "w", "i", "t", "h", "o", "u", "t", " ", "e", "v", "e", "n", " ", "t", "h", "e", " ", "i", "m", "p", "l", "i", "e", "d", " ", "w", "a", "r", "r", "a", "n", "t", "y", " ", "o", "f", "\n">>  \* //  but WITHOUT ANY WARRANTY; without even the implied warranty of
    \o <<"/", "/", " ", " ", "M", "E", "R", "C", "H", "A", "N", "T", "A", "B", "I", "L", "I", "T", "Y", " ", "o", "r", " ", "F", "I", "T", "N", "E", "S", "S", " ", "F", "O", "R", " ", "A", " ", "P", "A", "R", "T", "I", "C", "U", "L", "A", "R", " ", "P", "U", "R", "P", "O", "S", "E", ".", " ", " ", "S", "e", "e", " ", "t", "h", "e", "\n">>  \* //  MERCHANTABILITY or FITNESS FOR A PARTICULAR PURPOSE.  See the
    \o <<"/", "/", " ", " ", "G", "N", "U", " ", "G", "e", "n", "e", "r", "a", "l", " ", "P", "u", "b", "l", "i", "c", " ", "L", "i", "c", "e", "n", "s", "e", " ", "f", "o", "r", " ", "m", "o", "r", "e", " ", "d", "e", "t", "a", "i", "l", "s", ".", "\n">>  \* //  GNU General Public License for more details.
    \o <<"/", "/", "\n">>  \* //
    \o <<"/", "/", " ", " ", "Y", "o", "u", " ", "s", "h", "o", "u", "l", "d", " ", "h", "a", "v", "e", " ", "r", "e", "c", "e", "i", "v", "e", "d", " ", "a", " ", "c", "o", "p", "y", " ", "o", "f", " ", "t", "h", "e", " ", "G", "N", "U", " ", "G", "e", "n", "e", "r", "a", "l", " ", "P", "u", "b", "l", "i", "c", " ", "L", "i", "c", "e", "n", "s", "e", "\n">>  \* //  You should have received a copy of the GNU General Public License
    \o <<"/", "/", " ", " ", "a", "l", "o", "n", "g", " ", "w", "i", "t", "h", " ", "t", "h", "i", "s", " ", "p", "r", "o", "g", "r", "a", "m", ".", " ", " ", "I", "f", " ", "n", "o", "t", ",", " ", "s", "e", "e", " ", "<", "h", "t", "t", "p", ":", "/", "/", "w", "w", "w", ".", "g", "n", "u", ".", "o", "r", "g", "/", "l", "i", "c", "e", "n", "s", "e", "s", "/", ">", ".", "\n">>  \* //  along with this program.  If not, see <http://www.gnu.org/licenses/>.
    \o <<"/", "/", "\n">>  \* //
    \o <<"\n">>  \* (empty line)

\* lines 25-42
OLD_HEADER ==
    <<"/", "/", "\n">>  \* //
    \o <<"/", "/", " ", " ", "C", "o", "p", "y", "r", "i", "g", "h", "t", " ", "(", "C", ")", " ", "2", "0", "2", "2", "-", "2", "0", "2", "4", " ", " ", "C", "h", "a", "s", "e", " ", "R", "u", "s", "k", "i", "n", "\n">>  \* //  Copyright (C) 2022-2024  Chase Ruskin
    \o <<"/", "/", "\n">>  \* //
    \o <<"/", "/", " ", " ", "T", "h", "i", "s", " ", "p", "r", "o", "g", "r", "a", "m", " ", "i", "s", " ", "f", "r", "e", "e", " ", "s", "o", "f", "t", "w", "a", "r", "e", ":", " ", "y", "o", "u", " ", "c", "a", "n", " ", "r", "e", "d", "i", "s", "t", "r", "i", "b", "u", "t", "e", " ", "i", "t", " ", "a", "n", "d", "/", "o", "r", " ", "m", "o", "d", "i", "f", "y", "\n">>  \* //  This program is free software: you can redistribute it and/or modify
    \o <<"/", "/", " ", " ", "i", "t", " ", "u", "n", "d", "e", "r", " ", "t", "h", "e", " ", "t", "e", "r", "m", "s", " ", "o", "f", " ", "t", "h", "e", " ", "G", "N", "U", " ", "G", "e", "n", "e", "r", "a", "l", " ", "P", "u", "b", "l", "i", "c", " ", "L", "i", "c", "e", "n", "s", "e", " ", "a", "s", " ", "p", "u", "b", "l", "i", "s", "h", "e", "d", " ", "b", "y", "\n">>  \* //  it under the terms of the GNU General Public License as published by
    \o <<"/", "/", " ", " ", "t", "h", "e", " ", "F", "r", "e", "e", " ", "S", "o", "f", "t", "w", "a", "r", "e", " ", "F", "o", "u", "n", "d", "a", "t", "i", "o", "n", ",", " ", "e", "i", "t", "h", "e", "r", " ", "v", "e", "r", "s", "i", "o", "n", " ", "3", " ", "o", "f", " ", "t", "h", "e", " ", "L", "i", "c", "e", "n", "s", "e", ",", " ", "o", "r", "\n">>  \* //  the Free Software Foundation, either version 3 of the License, or
    \o <<"/", "/", " ", " ", "(", "a", "t", " ", "y", "o", "u", "r", " ", "o", "p", "t", "i", "o", "n", ")", " ", "a", "n", "y", " ", "l", "a", "t", "e", "r", " ", "v", "e", "r", "s", "i", "o", "n", ".", "\n">>  \* //  (at your option) any later version.
    \o <<"/", "/", "\n">>  \* //
    \o <<"/", "/", " ", " ", "T", "h", "i", "s", " ", "p", "r", "o", "g", "r", "a", "m", " ", "i", "s", " ", "d", "i", "s", "t", "r", "i", "b", "u", "t", "e", "d", " ", "i", "n", " ", "t", "h", "e", " ", "h", "o", "p", "e", " ", "t", "h", "a", "t", " ", "i", "t", " ", "w", "i", "l", "l", " ", "b", "e", " ", "u", "s", "e", "f", "u", "l", ",", "\n">>  \* //  This program is distributed in the hope that it will be useful,
    \o <<"/", "/", " ", " ", "b", "u", "t", " ", "W", "I", "T", "H", "O", "U", "T", " ", "A", "N", "Y", " ", "W", "A", "R", "R", "A", "N", "T", "Y", ";", " ", "w", "i", "t", "h", "o", "u", "t", " ", "e", "v", "e", "n", " ", "t", "h", "e", " ", "i", "m", "p", "l", "i", "e", "d", " ", "w", "a", "r", "r", "a", "n", "t", "y", " ", "o", "f", "\n">>  \* //  but WITHOUT ANY WARRANTY; without even the implied warranty of
    \o <<"/", "/", " ", " ", "M", "E", "R", "C", "H", "A", "N", "T", "A", "B", "I", "L", "I", "T", "Y", " ", "o", "r", " ", "F", "I", "T", "N", "E", "S", "S", " ", "F", "O", "R", " ", "A", " ", "P", "A", "R", "T", "I", "C", "U", "L", "A", "R", " ", "P", "U", "R", "P", "O", "S", "E", ".", " ", " ", "S", "e", "e", " ", "t", "h", "e", "\n">>  \* //  MERCHANTABILITY or FITNESS FOR A PARTICULAR PURPOSE.  See the
    \o <<"/", "/", " ", " ", "G", "N", "U", " ", "G", "e", "n", "e", "r", "a", "l", " ", "P", "u", "b", "l", "i", "c", " ", "L", "i", "c", "e", "n", "s", "e", " ", "f", "o", "r", " ", "m", "o", "r", "e", " ", "d", "e", "t", "a", "i", "l", "s", ".", "\n">>  \* //  GNU General Public License for more details.
    \o <<"/", "/", "\n">>  \* //
    \o <<"/", "/", " ", " ", "Y", "o", "u", " ", "s", "h", "o", "u", "l", "d", " ", "h", "a", "v", "e", " ", "r", "e", "c", "e", "i", "v", "e", "d", " ", "a", " ", "c", "o", "p", "y", " ", "o", "f", " ", "t", "h", "e", " ", "G", "N", "U", " ", "G", "e", "n", "e", "r", "a", "l", " ", "P", "u", "b", "l", "i", "c", " ", "L", "i", "c", "e", "n", "s", "e", "\n">>  \* //  You should have received a copy of the GNU General Public License
    \o <<"/", "/", " ", " ", "a", "l", "o", "n", "g", " ", "w", "i", "t", "h", " ", "t", "h", "i", "s", " ", "p", "r", "o", "g", "r", "a", "m", ".", " ", " ", "I", "f", " ", "n", "o", "t", ",", " ", "s", "e", "e", " ", "<", "h", "t", "t", "p", ":", "/", "/", "w", "w", "w", ".", "g", "n", "u", ".", "o", "r", "g", "/", "l", "i", "c", "e", "n", "s", "e", "s", "/", ">", ".", "\n">>  \* //  along with this program.  If not, see <http://www.gnu.org/licenses/>.
    \o <<"/", "/", "\n">>  \* //
    \o <<"\n">>  \* (empty line)

\* found, kept, updated, fixed
FoundMsg(n) == <<"i", "n", "f", "o", ":", " ", "f", "o", "u", "n", "d", " ">> \o StrOfInt(n) \o <<" ", "s", "o", "u", "r", "c", "e", " ", "f", "i", "l", "e", "s">>
KeptMsg(n) == <<"i", "n", "f", "o", ":", " ", "k", "e", "p", "t", " ">> \o StrOfInt(n) \o <<" ", "w", "i", "t", "h", " ", "l", "a", "t", "e", "s", "t", " ", "l", "i", "c", "e", "n", "s", "e", " ", "h", "e", "a", "d", "e", "r">>
UpdatedMsg(n) == <<"i", "n", "f", "o", ":", " ", "u", "p", "d", "a", "t", "e", "d", " ">> \o StrOfInt(n) \o <<" ", "t", "o", " ", "l", "a", "t", "e", "s", "t", " ", "l", "i", "c", "e", "n", "s", "e", " ", "h", "e", "a", "d", "e", "r">>
FixedMsg(n) == <<"i", "n", "f", "o", ":", " ", "f", "i", "x", "e", "d", " ">> \o StrOfInt(n) \o <<" ", "w", "i", "t", "h", " ", "l", "a", "t", "e", "s", "t", " ", "l", "i", "c", "e", "n", "s", "e", " ", "h", "e", "a", "d", "e", "r">>

\* lines 56-69 with the header written after the text
WithHeaderAtEnd(data) ==
    IF StartsWith(data, NEW_HEADER) THEN [counted |-> "latest", data |-> data]
    ELSE IF StartsWith(data, OLD_HEADER)
         THEN [counted |-> "updating", data |-> Replace(data, OLD_HEADER, NEW_HEADER)]
         ELSE [counted |-> "missing", data |-> data \o NEW_HEADER]

\* lines 56-69: which counter a file's text goes to, and the text to keep
WithHeader(data) ==
    IF StartsWith(data, NEW_HEADER) THEN [counted |-> "latest", data |-> data]
    ELSE IF StartsWith(data, OLD_HEADER)
         THEN [counted |-> "updating", data |-> Replace(data, OLD_HEADER, NEW_HEADER)]
         ELSE [counted |-> "missing", data |-> NEW_HEADER \o data]

---------------------------------------------------------------------------
(* Inputs of the license script *)

\* the most source files found, and the most runs of the script over them
MaxFiles == 2
MaxRuns == 2

\* code of a source file, and a comment at its top
SourceCode == <<"f", "n", " ", "m", "a", "i", "n", "(", ")", " ", "{", "}", "\n">>
TopComment == <<"/", "/", " ", "m", "a", "i", "n", "\n">>

\* the second line of the header with an earlier year
EarlierYears == <<"/", "/", "\n", "/", "/", " ", " ", "C", "o", "p", "y", "r", "i", "g", "h", "t", " ", "(", "C", ")", " ", "2", "0", "2", "2", "-", "2", "0", "2", "3", " ", " ", "C", "h", "a", "s", "e", " ", "R", "u", "s", "k", "i", "n", "\n">>

\* the header without its closing empty line
HeaderUnclosed == SubSeq(NEW_HEADER, 1, Len(NEW_HEADER) - 1)

\* texts of source files: empty, without a header, the header alone, the
\* header and code, the header twice, the header after a comment, a header
\* that is cut short or differs in one line
SourceTexts ==
    { <<>>,
      SourceCode,
      NEW_HEADER,
      NEW_HEADER \o SourceCode,
      NEW_HEADER \o NEW_HEADER \o SourceCode,
      TopComment \o NEW_HEADER \o SourceCode,
      HeaderUnclosed \o SourceCode,
      EarlierYears \o SourceCode }

SourceFiles == StringsUpTo(SourceTexts, MaxFiles)

---------------------------------------------------------------------------
(* tools/license.py, the script *)

\* what every step of license.py leaves alone
LicenseFrame ==
    UNCHANGED <<argv, manifest, tags, contents, current_version, last_version,
                version_header, info, unitVars, clgenVars, downloadVars, runs>>

\* lines 44-49: one more run of the script finds the files and resets the
\* counters
LicenseStart ==
    /\ pc \in {"start", "done"}
    /\ run < MaxRuns
    /\ run' = run + 1
    /\ stdout' = Printed(<<>>, FoundMsg(Len(files)))
    /\ latest' = 0
    /\ updating' = 0
    /\ missing' = 0
    /\ source' = 0
    /\ outcome' = Running
    /\ pc' = "loop"
    /\ UNCHANGED files
    /\ LicenseFrame

\* lines 51-74: the next file is counted and, unless it has the latest
\* header, written back
LicenseFile ==
    /\ pc = "loop"
    /\ source < Len(files)
    /\ source' = source + 1
    /\ \E checked \in {WithHeader(files[source'])} :
         /\ latest' = latest + (IF checked.counted = "latest" THEN 1 ELSE 0)
         /\ updating' = updating + (IF checked.counted = "updating" THEN 1 ELSE 0)
         /\ missing' = missing + (IF checked.counted = "missing" THEN 1 ELSE 0)
         /\ files' = IF checked.counted = "latest" THEN files
                     ELSE [files EXCEPT ![source'] = checked.data]
    /\ UNCHANGED <<pc, run, stdout, outcome>>
    /\ LicenseFrame

\* lines 76-78: the counts are printed
LicenseReport ==
    /\ pc = "loop"
    /\ source = Len(files)
    /\ stdout' = Printed(Printed(Printed(stdout, KeptMsg(latest)), UpdatedMsg(updating)),
                         FixedMsg(missing))
    /\ outcome' = Success
    /\ pc' = "done"
    /\ UNCHANGED <<files, source, latest, updating, missing, run>>
    /\ LicenseFrame

InitLicense ==
    /\ pc = "start"
    /\ argv = <<>>
    /\ manifest = NoneV
    /\ tags = NoneV
    /\ contents = NoneV
    /\ current_version = NoneV
    /\ last_version = NoneV
    /\ version_header = NoneV
    /\ info = NoneV
    /\ stdout = <<>>
    /\ outcome = Running
    /\ UnitIdle
    /\ ClgenIdle
    /\ DownloadIdle
    /\ runs = <<>>
    /\ files \in SourceFiles
    /\ source = 0
    /\ latest = 0
    /\ updating = 0
    /\ missing = 0
    /\ run = 0

NextLicense == LicenseStart \/ LicenseFile \/ LicenseReport

SpecLicense == InitLicense /\ [][NextLicense]_vars

---------------------------------------------------------------------------
(* What the claims speak of, stated apart from the code's operators *)

\* the integer triple (major, minor, patch) of a well-formed version string
Triple(s) ==
    LET part == Split(s, ".", 2)
    IN  <<IntDigits(part[1]), IntDigits(part[2]), IntDigits(part[3])>>

\* a is lexicographically greater than b
TripleGreater(a, b) ==
    \/ a[1] > b[1]
    \/ a[1] = b[1] /\ a[2] > b[2]
    \/ a[1] = b[1] /\ a[2] = b[2] /\ a[3] > b[3]

\* a tag line with one leading v or V removed
Unprefixed(line) ==
    IF line # <<>> /\ line[1] \in {"v", "V"} THEN Tail(line) ELSE line

\* the tag line parses as a version
ParsesAsVersion(line) == WellFormed(Unprefixed(line))

\* the lines the function iterates over
LinesOf(text) == SplitLines(Strip(text))

\* the versions of the tag lines of a listing that parse as a version
TaggedVersions(text) ==
    {Unprefixed(LinesOf(text)[i]) :
        i \in {j \in 1..Len(LinesOf(text)) : ParsesAsVersion(LinesOf(text)[j])}}

\* a tag line the claims call malformed: a character other than a digit or
\* '.', or not exactly two '.'
MalformedLine(line) ==
    \/ \E c \in Chars(Unprefixed(line)) : c \notin Digits \cup {"."}
    \/ Count(Unprefixed(line), ".") # 2

RECURSIVE WithoutMalformed(_)
WithoutMalformed(lines) ==
    IF lines = <<>> THEN <<>>
    ELSE IF MalformedLine(Head(lines)) THEN WithoutMalformed(Tail(lines))
    ELSE <<Head(lines)>> \o WithoutMalformed(Tail(lines))

Returned(fn) == call.fn = fn /\ ret # Pending

---------------------------------------------------------------------------
(* Claims *)

\* C1: for well-formed lhs and rhs, is_new_version_higher(lhs, rhs) is true
\* exactly when the integer triple of rhs is lexicographically greater than
\* that of lhs.
C1_HigherIffTripleGreater ==
    (/\ Returned("is_new_version_higher")
     /\ WellFormed(call.args[1])
     /\ WellFormed(call.args[2]))
    => ret = Bool(TripleGreater(Triple(call.args[2]), Triple(call.args[1])))

\* the gate compared the manifest's version with the tags and printed
Compared == pc = "done" /\ tags # NoneV /\ outcome = Success

\* the baseline the claim names: the highest tagged version, 0.0.0 without one
AboveEveryTag(v) ==
    /\ TripleGreater(Triple(v), <<0, 0, 0>>)
    /\ \A t \in TaggedVersions(tags.val) : TripleGreater(Triple(v), Triple(t))

\* C2: the gate prints 1 exactly when the manifest version is larger than the
\* latest tagged version (0.0.0 when no tag is a version), and 0 otherwise.
C2_GatePrintsOneIffLarger ==
    (Compared /\ WellFormed(current_version.val))
    => stdout = <<IF AboveEveryTag(current_version.val) THEN <<"1">> ELSE <<"0">>>>

\* C3: the result is, among the tag lines that parse as a version, one whose
\* version is the highest by numeric comparison.
C3_ReturnsHighestTag ==
    (/\ Returned("extract_latest_released_version")
     /\ TaggedVersions(call.args[1]) # {})
    => /\ ret.tag = "str"
       /\ ret.val \in TaggedVersions(call.args[1])
       /\ \A t \in TaggedVersions(call.args[1]) :
              ~TripleGreater(Triple(t), Triple(ret.val))

\* C4: the result, when the function returns one, is none exactly when no tag
\* line parses as a version; a listing with the tag 0.0.0 does not yield none.
C4_NoneIffNoVersionTag ==
    (Returned("extract_latest_released_version") /\ ~IsRaise(ret))
    => (ret = NoneV <=> TaggedVersions(call.args[1]) = {})

\* C5: the function returns a version or none and never raises; what does not
\* decompose into three non-empty digit-only components is rejected.
C5_NeverRaises ==
    Returned("extract_latest_released_version")
    => \/ ret = NoneV
       \/ ret.tag = "str" /\ WellFormed(ret.val)

\* C6, as claimed: the result equals the result on the listing with every
\* malformed line removed.
C6_MalformedIgnored_Original ==
    Returned("extract_latest_released_version")
    => ret = extract_latest_released_version(
                 JoinLines(WithoutMalformed(SplitLines(call.args[1]))))

\* C6, amended: the result equals the result on the listing that is left
\* when the leading and trailing whitespace of the whole listing is stripped
\* and every malformed line of the rest is removed.
C6_MalformedIgnored ==
    Returned("extract_latest_released_version")
    => ret = extract_latest_released_version(
                 JoinLines(WithoutMalformed(LinesOf(call.args[1]))))

\* C6 witness: a listing with a malformed line and a version, the version
\* returned.
C6_Witness ==
    /\ Returned("extract_latest_released_version")
    /\ Len(LinesOf(call.args[1])) = 2
    /\ MalformedLine(LinesOf(call.args[1])[1])
    /\ ret = Str(Unprefixed(LinesOf(call.args[1])[2]))
    /\ WellFormed(ret.val)

---------------------------------------------------------------------------
(* What the changelog claims speak of *)

IsMarkerLine(line) == Len(line) >= 3 /\ line[1] = "#" /\ line[2] = "#" /\ line[3] = " "

MarkerLines(doc) == {i \in 1..Len(doc) : IsMarkerLine(doc[i])}

HasEntry(doc) == MarkerLines(doc) # {}

\* the positions of the first and of the second marker line (past the end
\* without a second one)
FirstMarker(doc) == CHOOSE i \in MarkerLines(doc) : \A j \in MarkerLines(doc) : i <= j

SecondMarker(doc) ==
    LET later == MarkerLines(doc) \ {FirstMarker(doc)}
    IN  IF later = {} THEN Len(doc) + 1
        ELSE CHOOSE i \in later : \A j \in later : i <= j

TopHeader(doc) == doc[FirstMarker(doc)]

\* the header's text after the marker
AfterMarker(header) == SubSeq(header, 4, Len(header))

HasToken(s) == \E i \in 1..Len(s) : s[i] \notin Whitespace

\* the first whitespace-delimited token of s
Token(s) ==
    LET first == CHOOSE i \in 1..Len(s) :
                     s[i] \notin Whitespace /\ \A j \in 1..(i - 1) : s[j] \in Whitespace
        last  == CHOOSE k \in first..Len(s) :
                     /\ \A j \in first..k : s[j] \notin Whitespace
                     /\ k = Len(s) \/ s[k + 1] \in Whitespace
    IN  SubSeq(s, first, last)

\* the header names the requested version
NamesVersion(header, requested) ==
    /\ HasToken(AfterMarker(header))
    /\ Unprefixed(Token(AfterMarker(header))) = requested

\* the header names another version
NamesOtherVersion(header, requested) ==
    /\ HasToken(AfterMarker(header))
    /\ Unprefixed(Token(AfterMarker(header))) # requested

\* the header carries 'unreleased' in some letter case
MarkedUnreleased(header) ==
    \E i \in 1..Len(header) :
        i + Len(Unreleased) - 1 <= Len(header)
        /\ Lower(SubSeq(header, i, i + Len(Unreleased) - 1)) = Unreleased

RECURSIVE Concat(_)
Concat(lines) == IF lines = <<>> THEN <<>> ELSE Head(lines) \o Concat(Tail(lines))

\* the text of the top entry: the lines between the first and the second
\* marker line, trimmed
EntryBody(doc) ==
    Strip(Concat(SubSeq(doc, FirstMarker(doc) + 1, SecondMarker(doc) - 1)))

\* the pipeline ran on a changelog and ended
Validated == pc = "done" /\ contents # NoneV /\ contents.tag = "list"

\* C7: the checks fail in the order no-entry, version-mismatch, not-finalized,
\* empty-body, and the first that fails is the one reported: a header that
\* names another version is a version mismatch also when it is marked
\* unreleased, and a matching unreleased header is not finalized also when
\* its body is empty.
C7_FirstFailingCheckReported ==
    Validated =>
      LET doc == contents.val
          req == current_version.val
      IN  /\ ~HasEntry(doc) => outcome = Exit(NoEntryMsg)
          /\ (HasEntry(doc) /\ NamesOtherVersion(TopHeader(doc), req))
                => outcome = Exit(MismatchMsg)
          /\ (/\ HasEntry(doc)
              /\ NamesVersion(TopHeader(doc), req)
              /\ MarkedUnreleased(TopHeader(doc)))
                => outcome = Exit(NotFinalizedMsg)
          /\ (/\ HasEntry(doc)
              /\ NamesVersion(TopHeader(doc), req)
              /\ ~MarkedUnreleased(TopHeader(doc))
              /\ EntryBody(doc) = <<>>)
                => outcome = Exit(EmptyBodyMsg)
          /\ outcome.msg \in {NoEntryMsg, MismatchMsg, NotFinalizedMsg, EmptyBodyMsg}
                => stdout = <<>>

\* C7 witness: a top header that names another version and is marked
\* unreleased, reported as a version mismatch.
C7_Witness ==
    /\ Validated
    /\ HasEntry(contents.val)
    /\ NamesOtherVersion(TopHeader(contents.val), current_version.val)
    /\ MarkedUnreleased(TopHeader(contents.val))
    /\ outcome = Exit(MismatchMsg)

\* every check of the pipeline passes
AllChecksPass(doc, req) ==
    /\ HasEntry(doc)
    /\ NamesVersion(TopHeader(doc), req)
    /\ ~MarkedUnreleased(TopHeader(doc))
    /\ EntryBody(doc) # <<>>

\* C8: the pipeline succeeds exactly when the first header exists, names the
\* requested version, is not marked unreleased and has a body that is not
\* empty after trimming; on success exactly that body is printed, on every
\* failure nothing is.
C8_SucceedsIffAllChecksPass ==
    Validated =>
      /\ outcome = Success <=> AllChecksPass(contents.val, current_version.val)
      /\ AllChecksPass(contents.val, current_version.val)
            => stdout = <<EntryBody(contents.val)>>
      /\ ~AllChecksPass(contents.val, current_version.val) => stdout = <<>>

\* C8 witness: a changelog that opens with the requested entry, its text and
\* an older entry below; the text is printed.
C8_Witness ==
    /\ Validated
    /\ outcome = Success
    /\ FirstMarker(contents.val) = 1
    /\ SecondMarker(contents.val) = 3
    /\ stdout = <<EntryBody(contents.val)>>

\* C9: the pipeline ends in success or in one of the four validation failures,
\* never in an unhandled exception.
C9_NeverRaises ==
    Validated =>
      /\ outcome.kind = "exit"
      /\ outcome.msg \in {"", NoEntryMsg, MismatchMsg, NotFinalizedMsg, EmptyBodyMsg}

\* C10: versions_match is true exactly when the first token after the marker,
\* one leading v or V removed, equals the requested version character for
\* character, and false for every other token, whatever follows the token.
C10_MatchIffTokenEqual ==
    Returned("versions_match") =>
      /\ ret = True <=> NamesVersion(call.args[2], call.args[1])
      /\ NamesOtherVersion(call.args[2], call.args[1]) => ret = False

\* C10 witness: a header with a V before the version and a qualifier after
\* it matches.
C10_Witness ==
    /\ Returned("versions_match")
    /\ ret = True
    /\ Token(AfterMarker(call.args[2]))[1] = "V"
    /\ MarkedUnreleased(call.args[2])

\* C11: the result is the concatenation, with nothing put between them, of
\* the lines after the first marker line and before the second one (or the
\* end), trimmed; without a marker line it is empty.
C11_BodyIsTopEntry ==
    Returned("extract_recent_version_changes") =>
      ret = Str(IF HasEntry(call.args[1]) THEN EntryBody(call.args[1]) ELSE <<>>)

\* C11 witness: a title, the first header, and a sub-heading that is the
\* whole body.
C11_Witness ==
    /\ Returned("extract_recent_version_changes")
    /\ Len(call.args[1]) = 3
    /\ HasEntry(call.args[1])
    /\ FirstMarker(call.args[1]) = 2
    /\ StartsWith(call.args[1][3], <<"#", "#", "#", " ">>)
    /\ ret = Str(Strip(call.args[1][3]))
    /\ ret.val # <<>>

---------------------------------------------------------------------------
(* What the manifest claims speak of *)

\* s without its leading and trailing characters of the set drop
Trimmed(s, drop) ==
    LET kept == {i \in 1..Len(s) : s[i] \notin drop}
    IN  IF kept = {} THEN <<>>
        ELSE SubSeq(s, CHOOSE i \in kept : \A j \in kept : i <= j,
                       CHOOSE i \in kept : \A j \in kept : j <= i)

HasEquals(line) == \E i \in 1..Len(line) : line[i] = "="

\* the position of the first '=' of a line
FirstEquals(line) ==
    CHOOSE i \in 1..Len(line) : line[i] = "=" /\ \A j \in 1..(i - 1) : line[j] # "="

\* the key left of the first '=' and the value right of it, both trimmed
KeyOf(line) == Trimmed(SubSeq(line, 1, FirstEquals(line) - 1), Whitespace)
ValueOf(line) == Trimmed(SubSeq(line, FirstEquals(line) + 1, Len(line)), Whitespace)

\* the line assigns the key 'version'
IsVersionLine(line) ==
    HasEquals(line) /\ KeyOf(line) = <<"v", "e", "r", "s", "i", "o", "n">>

VersionLines(m) == {i \in 1..Len(m) : IsVersionLine(m[i])}

\* the value of the first line of the manifest that assigns 'version'
FirstVersionValue(m) ==
    ValueOf(m[CHOOSE i \in VersionLines(m) : \A j \in VersionLines(m) : i <= j])

\* C12: when a line assigns the key 'version' (the text left of its first
\* '=', trimmed) and the value of the first such line is not empty, the result
\* is that value without every leading and trailing occurrence of its first
\* character; when no line assigns the key, also not one that holds 'version'
\* right of its first '=', the result is none.
C12_ValueOfFirstVersionLine ==
    Returned("extract_crate_version") =>
      LET m == call.args[1]
      IN  /\ VersionLines(m) = {} => ret = NoneV
          /\ (VersionLines(m) # {} /\ FirstVersionValue(m) # <<>>)
                => ret = Str(Trimmed(FirstVersionValue(m), {FirstVersionValue(m)[1]}))

\* C12 witness: an inline table that holds 'version' right of its '=', then a
\* version line in single quotes; the value of the second line is returned
\* without the quotes.
C12_Witness ==
    /\ Returned("extract_crate_version")
    /\ Len(call.args[1]) = 2
    /\ Find(call.args[1][1], <<"v", "e", "r", "s", "i", "o", "n">>) # 0
    /\ ~IsVersionLine(call.args[1][1])
    /\ IsVersionLine(call.args[1][2])
    /\ ValueOf(call.args[1][2]) # <<>>
    /\ ValueOf(call.args[1][2])[1] = "'"
    /\ ret.tag = "str"
    /\ ret.val # <<>>
    /\ "'" \notin Chars(ret.val)

\* the value is nothing but repetitions of one character, as in "" and ''
OnlyQuotes(value) == value # <<>> /\ \A i \in 1..Len(value) : value[i] = value[1]

\* C13, as claimed: the result is none only when no line assigns the key
\* 'version'; when one does and its value is empty, the result is ''.
C13_NoneIffKeyAbsent_Original ==
    Returned("extract_crate_version") =>
      LET m == call.args[1]
      IN  /\ ret = NoneV => VersionLines(m) = {}
          /\ (/\ VersionLines(m) # {}
              /\ \/ FirstVersionValue(m) = <<>>
                 \/ OnlyQuotes(FirstVersionValue(m)))
                => ret = Str(<<>>)

\* C13, amended: the result is none exactly when no line assigns the key
\* 'version' or nothing but whitespace follows the '=' of the first line that
\* does; when the value of that line is an empty pair of quotes, the result is
\* ''.
C13_NoneIffKeyAbsent ==
    Returned("extract_crate_version") =>
      LET m == call.args[1]
      IN  /\ ret = NoneV <=> (VersionLines(m) = {} \/ FirstVersionValue(m) = <<>>)
          /\ (VersionLines(m) # {} /\ OnlyQuotes(FirstVersionValue(m)))
                => ret = Str(<<>>)

\* C13 witness: a manifest whose version line holds an empty pair of quotes
\* yields '', not none.
C13_Witness ==
    /\ Returned("extract_crate_version")
    /\ VersionLines(call.args[1]) # {}
    /\ OnlyQuotes(FirstVersionValue(call.args[1]))
    /\ ret = Str(<<>>)

---------------------------------------------------------------------------
(* Claims on the release gate and on the order of the tags *)

\* the gate ran without --version and ended, and the tag listing, if it came
\* to it, gave a well-formed last version (0.0.0 without a tag)
GateEnded ==
    /\ pc = "done"
    /\ argv = <<>>
    /\ tags = NoneV \/ (last_version # NoneV /\ WellFormed(last_version.val))

\* C14: the gate ends with the fatal 'could not find version' diagnostic
\* (exactly when the manifest has no version), or prints 0, or prints 1; it
\* never ends in an unhandled exception, whatever the manifest's version is.
C14_EndsInOneOfThree ==
    GateEnded =>
      \/ /\ current_version = NoneV
         /\ outcome = Exit(NoVersionMsg)
         /\ stdout = <<>>
      \/ /\ current_version # NoneV
         /\ outcome = Success
         /\ stdout \in {<< <<"0">> >>, << <<"1">> >>}

\* C15: is_new_version_higher(v, v) is false for every well-formed version
\* v; it is the value the gate prints as 0 when the manifest's version is the
\* last tagged one.
C15_NotHigherThanItself ==
    (/\ Returned("is_new_version_higher")
     /\ call.args[1] = call.args[2]
     /\ WellFormed(call.args[1]))
    => ret = False /\ IntOfBool(ret) = <<"0">>

\* C15 witness: a version other than 0.0.0 compared with itself.
C15_Witness ==
    /\ Returned("is_new_version_higher")
    /\ call.args[1] = call.args[2]
    /\ WellFormed(call.args[1])
    /\ call.args[1] # ZeroVer
    /\ ret = False

---------------------------------------------------------------------------
(* Claims on the header of a changelog *)

UnreleasedUpper == <<"U", "N", "R", "E", "L", "E", "A", "S", "E", "D">>

\* the line holds the letters of 'unreleased' in a row, each in either case
HoldsUnreleased(line) ==
    \E i \in 1..Len(line) :
        /\ i + 9 <= Len(line)
        /\ \A k \in 1..10 : line[i + k - 1] \in {Unreleased[k], UnreleasedUpper[k]}

\* C16: is_finalized is false exactly when the header holds 'unreleased' in
\* any letter case at any position, and true for every other header.
C16_FinalizedIffNoKeyword ==
    Returned("is_finalized") => ret = Bool(~HoldsUnreleased(call.args[1]))

\* C16 witness: the keyword in mixed case inside parentheses makes the header
\* not finalized.
C16_Witness ==
    /\ Returned("is_finalized")
    /\ ret = False
    /\ "(" \in Chars(call.args[1])
    /\ "R" \in Chars(call.args[1])
    /\ "n" \in Chars(call.args[1])

\* the line holds '##' somewhere
HoldsHashes(line) == \E i \in 1..(Len(line) - 1) : line[i] = "#" /\ line[i + 1] = "#"

\* C17: get_version_header returns the first line that starts with '## ', and
\* none when no line does; a line that holds '##' elsewhere or starts with
\* '# ' or '###' is never returned.
C17_FirstMarkerLine ==
    Returned("get_version_header") =>
      ret = IF HasEntry(call.args[1]) THEN Str(TopHeader(call.args[1])) ELSE NoneV

\* C17 witness: below a '# ' title and a line that holds '##' without
\* starting with the marker, the third line is returned.
C17_Witness ==
    /\ Returned("get_version_header")
    /\ Len(call.args[1]) = 3
    /\ StartsWith(call.args[1][1], <<"#", " ">>)
    /\ HoldsHashes(call.args[1][2])
    /\ ~IsMarkerLine(call.args[1][2])
    /\ ret = Str(call.args[1][3])

---------------------------------------------------------------------------
(* Claims on the text and on the order of the tags *)

\* text is line i of lines, or that line without its one leading v or V
IsLineOf(text, lines) ==
    \E i \in 1..Len(lines) : text = lines[i] \/ text = Unprefixed(lines[i])

\* C18, as claimed: a returned value is the text of one of the lines of the
\* listing with at most one leading v or V removed.
C18_ResultIsTagLine_Original ==
    (Returned("extract_latest_released_version") /\ ret.tag = "str")
    => IsLineOf(ret.val, SplitLines(call.args[1]))

\* C18, amended: a returned value is the text of one of the lines of the
\* listing, once the leading and trailing whitespace of the whole listing is
\* stripped, with at most one leading v or V removed.
C18_ResultIsTagLine ==
    (Returned("extract_latest_released_version") /\ ret.tag = "str")
    => IsLineOf(ret.val, LinesOf(call.args[1]))

\* C18 witness: a tag with a V and a leading zero is returned without the V
\* and with the zero.
C18_Witness ==
    /\ Returned("extract_latest_released_version")
    /\ ret.tag = "str"
    /\ Len(ret.val) >= 2
    /\ ret.val[1] = "0"
    /\ ret.val[2] \in Digits
    /\ \E i \in 1..Len(LinesOf(call.args[1])) :
          LinesOf(call.args[1])[i] = <<"V">> \o ret.val

\* the versions of the lines of a listing, as listed, that parse as a version
ListedVersions(text) ==
    {Unprefixed(SplitLines(text)[i]) :
        i \in {j \in 1..Len(SplitLines(text)) : ParsesAsVersion(SplitLines(text)[j])}}

\* the gate listed the tags and ended
Listed == pc = "done" /\ tags # NoneV

\* C19: no well-formed tag of the listing is judged higher than the baseline
\* the gate uses, and the gate prints 0 whenever the manifest's version is the
\* text of a well-formed tag of the listing.
C19_ListedVersionPrintsZero ==
    Listed =>
      /\ last_version # NoneV =>
            \A t \in ListedVersions(tags.val) :
                is_new_version_higher(last_version.val, t) # True
      /\ current_version.val \in ListedVersions(tags.val)
            => stdout = << <<"0">> >>

\* the lines of a listing in the order p
Reordered(lines, p) == [i \in 1..Len(lines) |-> lines[p[i]]]

\* both results are none, or both are versions of the same integer triple
SameVersion(a, b) ==
    \/ a = NoneV /\ b = NoneV
    \/ a.tag = "str" /\ b.tag = "str" /\ Triple(a.val) = Triple(b.val)

\* C20, for the listings whose lines all parse as a version: the result on
\* every permutation of the lines is none when the result is none, and has
\* the same integer triple otherwise.
C20_OrderIndependent ==
    (/\ Returned("extract_latest_released_version")
     /\ \A i \in 1..Len(SplitLines(call.args[1])) :
            ParsesAsVersion(SplitLines(call.args[1])[i]))
    => \A p \in Permutations(1..Len(SplitLines(call.args[1]))) :
           SameVersion(ret, extract_latest_released_version(
                                JoinLines(Reordered(SplitLines(call.args[1]), p))))

\* C21: over well-formed versions is_new_version_higher is asymmetric (b
\* higher than a excludes a higher than b) and transitive (b higher than a
\* and c higher than b make c higher than a, for every c of ChainVersions).
C21_StrictPartialOrder ==
    (/\ Returned("is_new_version_higher")
     /\ WellFormed(call.args[1])
     /\ WellFormed(call.args[2])
     /\ ret = True)
    => /\ is_new_version_higher(call.args[2], call.args[1]) = False
       /\ \A c \in ChainVersions :
              is_new_version_higher(call.args[2], c) = True
                 => is_new_version_higher(call.args[1], c) = True

\* C21 witness: a version with a leading zero below a second one, which is
\* below a third.
C21_Witness ==
    /\ Returned("is_new_version_higher")
    /\ WellFormed(call.args[1])
    /\ WellFormed(call.args[2])
    /\ ret = True
    /\ Split(call.args[1], ".", 2)[1] = <<"0", "1">>
    /\ \E c \in ChainVersions :
          /\ is_new_version_higher(call.args[2], c) = True
          /\ Split(c, ".", 2)[1] = <<"1", "0">>

---------------------------------------------------------------------------
(* Claims on the changelog generator *)

\* the text of a commit before its first ':' (the whole commit without one)
PrefixOf(c) == IF Find(c, <<":">>) = 0 THEN c ELSE SubSeq(c, 1, Find(c, <<":">>) - 1)

\* the subject of a commit: its text after the first ':' (the whole commit
\* without one), up to its last '('
SubjectOf(c) ==
    LET from == IF Find(c, <<":">>) = 0 THEN 1 ELSE Find(c, <<":">>) + 1
        to   == IF RFind(c, "(") >= from THEN RFind(c, "(") - 1 ELSE Len(c)
    IN  SubSeq(c, from, to)

Included == {include[i] : i \in 1..Len(include)}

\* the commits of the log that git printed
LoggedCommits == {SplitLines(commits.val)[i] : i \in 1..Len(SplitLines(commits.val))}

\* the subject of the commit stands in the file
Appears(c) == \E i \in 1..Len(log.val) : Find(log.val[i], SubjectOf(c)) # 0

\* clgen wrote the file
Generated == pc = "done" /\ outcome = Success /\ log # NoneV

\* C22: no commit whose prefix is not in the include list (test, perf, ci, or
\* no known prefix) stands in the written file.
C22_OnlyIncludedWritten ==
    Generated =>
      \A c \in LoggedCommits :
          (c # <<>> /\ PrefixOf(c) \notin Included) => ~Appears(c)

\* the names of the tags of the listing
TagNames == {SplitLines(tags.val)[i] : i \in 1..Len(SplitLines(tags.val))}

\* clgen ran `git log` with the range of last_version
LogListed == pc \in {"scan", "done"} /\ last_version # NoneV

\* C23: with a version tag in the listing, the range passed to `git log` is
\* the name of a tag of the listing followed by '..'.
C23_RangeStartsAtTag ==
    (LogListed /\ TaggedVersions(tags.val) # {})
    => \E name \in TagNames : last_version.val = name \o <<".", ".">>

Prefixes == {PrefixKeys[i] : i \in 1..Len(PrefixKeys)}
ClosingKeywords == {closers[i] : i \in 1..Len(closers)}

\* the text without the closing keywords, in whatever letter case they stand
RECURSIVE WithoutKeywords(_)
WithoutKeywords(text) ==
    IF text = <<>> THEN <<>>
    ELSE IF \E k \in ClosingKeywords : StartsWith(Lower(text), k)
         THEN LET k == CHOOSE w \in ClosingKeywords : StartsWith(Lower(text), w)
              IN  WithoutKeywords(SubSeq(text, Len(k) + 1, Len(text)))
    ELSE <<Head(text)>> \o WithoutKeywords(Tail(text))

\* the commit has a trailing issue reference: a '#' after its last '('
HasIssueReference(c) == RFind(c, "#") > RFind(c, "(") /\ RFind(c, "(") > 1

\* the entry the claim gives a commit with a known prefix: '-' for the
\* prefix and its ':', the keywords gone from the issue reference, the rest
\* as it is
EntryOf(c) ==
    LET rest == SubSeq(c, Len(PrefixOf(c)) + 2, Len(c))
        paren == RFind(rest, "(")
    IN  <<"-">> \o (IF HasIssueReference(c)
                    THEN SubSeq(rest, 1, paren)
                            \o WithoutKeywords(SubSeq(rest, paren + 1, Len(rest)))
                    ELSE rest)

\* the entries of the commits of the log that belong to a category, in order
RECURSIVE EntriesOf(_, _)
EntriesOf(lines, category) ==
    IF lines = <<>> THEN <<>>
    ELSE (IF /\ Find(Head(lines), <<":">>) # 0
             /\ PrefixOf(Head(lines)) \in Prefixes
             /\ prefix_map[PrefixOf(Head(lines))] = category
          THEN <<EntryOf(Head(lines))>> ELSE <<>>)
         \o EntriesOf(Tail(lines), category)

\* C24: every commit that starts with a known prefix and ':' is recorded
\* once, under the category of that prefix and under no other, as the commit
\* with '-' for the prefix and its ':' and without the closing keywords in its
\* trailing issue reference, all other text unchanged; nothing else is
\* recorded.
C24_EntryIsCommit ==
    Generated =>
      \A category \in Categories :
          mapping[category] = EntriesOf(SplitLines(commits.val), category)

---------------------------------------------------------------------------
(* Claims on the downloader *)

\* a URL with the blanks and newlines around it taken off
UrlText(url) == Trimmed(url, Whitespace)

\* the URL ends in '.zip'
Supported(url) ==
    LET text == UrlText(url)
        n == Len(text)
    IN  n >= 4 /\ text[n - 3] = "." /\ text[n - 2] = "z" /\ text[n - 1] = "i" /\ text[n] = "p"

\* the supported URLs of a list, in input order
RECURSIVE SupportedOf(_)
SupportedOf(list) ==
    IF list = <<>> THEN <<>>
    ELSE IF Supported(Head(list)) THEN <<UrlText(Head(list))>> \o SupportedOf(Tail(list))
         ELSE SupportedOf(Tail(list))

\* '<queue>/<n>.zip' for the n that occur
NumberedZip(n) ==
    QueuePath \o <<"/">> \o <<(<<"0", "1", "2", "3", "4", "5", "6", "7", "8", "9">>)[n + 1]>>
              \o <<".", "z", "i", "p">>

\* download, unzip and removal of the supported URLs from the n-th on
RECURSIVE StepsFrom(_, _)
StepsFrom(list, n) ==
    IF list = <<>> THEN <<>>
    ELSE << <<<<"c", "u", "r", "l">>, <<"-", "L">>, Head(list), <<"-", "o">>, NumberedZip(n)>>,
            <<<<"u", "n", "z", "i", "p">>, <<"-", "q", "o">>, NumberedZip(n)>>,
            <<<<"r", "m">>, NumberedZip(n)>> >>
         \o StepsFrom(Tail(list), n + 1)

\* the commands run after the queue was asked for
StepsRun == IF runs = <<>> THEN <<>> ELSE Tail(runs)

IsPrefixOf(s, t) == Len(s) <= Len(t) /\ SubSeq(t, 1, Len(s)) = s

\* the downloader ran to its end
Downloaded == pc = "done" /\ outcome = Success

\* C25: the commands download.py has run are at every moment the first ones
\* of the sequence download to '<queue>/<n>.zip', unzip, removal for each URL
\* ending in '.zip', in input order with n counting from 0, and at the end
\* they are all of that sequence: no destination is shared, no step of a
\* later URL comes before the removal of the one before, no other URL is
\* downloaded.
C25_OneAfterAnother ==
    /\ IsPrefixOf(StepsRun, StepsFrom(SupportedOf(urls), 0))
    /\ Downloaded => StepsRun = StepsFrom(SupportedOf(urls), 0)

\* a run over two supported URLs and one unsupported URL has ended
C25_Witness ==
    /\ Downloaded
    /\ Len(zips) >= 2
    /\ Len(urls) > Len(zips)
    /\ Len(runs) = 1 + 3 * Len(zips)
    /\ runs[Len(runs)] = <<<<"r", "m">>, NumberedZip(Len(zips) - 1)>>

---------------------------------------------------------------------------
(* Claims on the license script *)

\* the text begins with the head
Begins(text, head) ==
    /\ Len(text) >= Len(head)
    /\ \A i \in 1..Len(head) : text[i] = head[i]

\* a run of the script has ended
RunEnded == pc = "done" /\ run >= 1

\* the script is in its second or a later run over the same files
LaterRun == run >= 2 /\ pc = "loop"

\* C26: after a run of license.py every source file begins with NEW_HEADER
\* and kept + updated + fixed is the number of source files found; a further
\* run over the same files changes no file's content and ends with kept =
\* number of files and updated = fixed = 0.
C26_Idempotent ==
    /\ [](RunEnded => /\ \A f \in 1..Len(files) : Begins(files[f], NEW_HEADER)
                       /\ latest + updating + missing = Len(files))
    /\ []((RunEnded /\ run >= 2) => /\ latest = Len(files)
                                      /\ updating = 0
                                      /\ missing = 0)
    /\ [][LaterRun => files' = files]_vars

\* a second run has ended over two files, one of which got the header
\* before its comment and old header in the first run
C26_Witness ==
    /\ RunEnded
    /\ run = 2
    /\ Len(files) = 2
    /\ latest = 2
    /\ \E f \in 1..Len(files) :
           files[f] = NEW_HEADER \o TopComment \o NEW_HEADER \o SourceCode

====
